---- MODULE Spec2Model ----
(***************************************************************************)
(* sdl3_gs: the Device of src/src/device.rs (resource registries, upload   *)
(* staging buffer, in-flight command buffer counter, swapchain state), its *)
(* CommandBuffer / pass objects, and the SlotMap of src/src/slot_map.rs.   *)
(*                                                                         *)
(* The SDL GPU library is the environment: each native call is an operator *)
(* that updates the native objects (gpu_cmd, gpu_tb, gpu_buf) and appends  *)
(* one entry to `calls`, the native calls of the operation in progress, in *)
(* the order the code issues them.  An entry carries `chk`, what a         *)
(* validating native layer would observe at that very moment.              *)
(*                                                                         *)
(* Handlers are written as functions from a state record to a state record *)
(* so that the statements of one handler compose in source order.          *)
(***************************************************************************)
EXTENDS Integers, Sequences, FiniteSets, TLC

\* ------------------------------------------------------------------ bounds
MaxCmdBufs == 2        \* native command buffers that can be recording at once
MaxTransferBufs == 2   \* native transfer buffers that can be live at once
MaxLen == 2            \* longest byte slice handed to an upload
MaxSwapTex == 1        \* distinct swapchain images the native layer hands out
MaxBuffers == 3        \* native GPU buffers that can be live at once
MaxTextures == 2       \* native GPU textures that can be live at once
WordBits == 3          \* width kept of the u32 quantities (wrap / saturation)
StagedBufferSize == 1  \* declared size of the buffer the staging runs upload to
MaxShaders == 1        \* native shaders / compute pipelines that can be live at once
MaxName == 2           \* longest entry-point name
MaxSlots == 3          \* slots of the SlotMapRefCell used on its own
MaxDepth == 2          \* closures of that SlotMapRefCell in progress at once

\* ------------------------------------------------------- program constants
Null == 0              \* std::ptr::null_mut()
SWAPCHAIN == -7777     \* Texture::SWAPCHAIN
NoFree == -1           \* SlotMap::first_free of an empty free list
TmpCmd == -1           \* the native command buffer local to one upload call
TmpFence == 1          \* the native fence local to one download call

UMax == 2^WordBits - 1
CmdIds == 1..MaxCmdBufs
TbIds == 1..MaxTransferBufs
BufIds == 1..MaxBuffers
TexIds == 1..MaxTextures
ShaderIds == 1..MaxShaders
PipelineIds == 1..MaxShaders
SwapTex == 1..MaxSwapTex
SwapDims == {<<2, 1>>}
BufferSizes == {2, UMax}
TextureSizes == {<<1, 1>>, <<2, 1>>}
PassKinds == {"copy", "render", "compute"}

VARIABLES
    window,                    \* Device::window is Some
    textures,                  \* Device::textures, a SlotMap of TextureSlot
    buffers,                   \* Device::buffers, a SlotMap of BufferSlot
    swapchain,                 \* Device::swapchain
    upload_transfer_buffer,    \* Device::upload_transfer_buffer
    cmd_buf_count,             \* Device::cmd_buf_count
    pending_transfer_buffers,  \* Device::pending_transfer_buffers
    cmd_bufs,                  \* the CommandBuffer values and their pass objects
    gpu_cmd, gpu_tb, gpu_buf,  \* native objects
    gpu_tex,                   \* native textures
    dropped,                   \* the Device has been dropped
    issued,                    \* the buffer handles the application was given
    shaders,                   \* Device::shaders, a SlotMap of ShaderSlot
    compute_pipelines,         \* Device::compute_pipelines
    gpu_shader,                \* native shaders
    gpu_pipeline,              \* native compute pipelines
    cell,                      \* a SlotMapRefCell used on its own: SlotMap and RefCell borrow flag
    frames,                    \* the closures of `cell` in progress, innermost last
    data,                      \* the bytes the latest download returned
    peak,                      \* the most entries of `cell` occupied at the same time so far
    calls,                     \* native calls of the latest operation, in order
    ret,                       \* what the latest operation returned
    fault                      \* the panic that ended the process, or "none"

vars == <<window, textures, buffers, swapchain, upload_transfer_buffer, cmd_buf_count,
          pending_transfer_buffers, cmd_bufs, gpu_cmd, gpu_tb, gpu_buf,
          gpu_tex, dropped, issued, shaders, compute_pipelines, gpu_shader, gpu_pipeline, cell, frames, data, peak, calls, ret, fault>>

\* The state as one record, with the call log and the returned bytes of a new
\* operation empty.
Cur ==
    [window |-> window, textures |-> textures, buffers |-> buffers, swapchain |-> swapchain,
     upload |-> upload_transfer_buffer, count |-> cmd_buf_count,
     pending |-> pending_transfer_buffers, cbs |-> cmd_bufs,
     gcmd |-> gpu_cmd, gtb |-> gpu_tb, gbuf |-> gpu_buf,
     gtex |-> gpu_tex, dropped |-> dropped, issued |-> issued,
     shaders |-> shaders,
     compute_pipelines |-> compute_pipelines,
     gshader |-> gpu_shader,
     gpipeline |-> gpu_pipeline,
     cell |-> cell,
     frames |-> frames,
     data |-> <<>>,
     peak |-> peak,
     calls |-> <<>>, fault |-> "none"]

Commit(s, r) ==
    /\ window' = s.window
    /\ textures' = s.textures
    /\ buffers' = s.buffers
    /\ swapchain' = s.swapchain
    /\ upload_transfer_buffer' = s.upload
    /\ cmd_buf_count' = s.count
    /\ pending_transfer_buffers' = s.pending
    /\ cmd_bufs' = s.cbs
    /\ gpu_cmd' = s.gcmd
    /\ gpu_tb' = s.gtb
    /\ gpu_buf' = s.gbuf
    /\ gpu_tex' = s.gtex
    /\ dropped' = s.dropped
    /\ issued' = s.issued
    /\ shaders' = s.shaders
    /\ compute_pipelines' = s.compute_pipelines
    /\ gpu_shader' = s.gshader
    /\ gpu_pipeline' = s.gpipeline
    /\ cell' = s.cell
    /\ frames' = s.frames
    /\ data' = s.data
    /\ peak' = LET slots == s.cell.inner.slots
                   occupied == Cardinality({i \in 1..Len(slots) : slots[i].occ})
               IN IF occupied > s.peak THEN occupied ELSE s.peak
    /\ calls' = s.calls
    /\ fault' = s.fault
    /\ ret' = IF s.fault = "none" THEN r ELSE "panic"

Panic(s, msg) == [s EXCEPT !.fault = msg]

\* ------------------------------------------------------------ slot_map.rs
EmptySlotMap == [slots |-> <<>>, first_free |-> NoFree]

Occupied(v) == [occ |-> TRUE, val |-> v, next_free |-> NoFree]
Free(n) == [occ |-> FALSE, val |-> Null, next_free |-> n]

\* self.slots[index as usize] is in bounds (a negative i32 casts to a huge usize)
InBounds(m, index) == index >= 0 /\ index < Len(m.slots)

\* An insert that never looks at the free list.
insert_always_grows(m, value) ==
    [map |-> [m EXCEPT !.slots = Append(@, Occupied(value))], idx |-> Len(m.slots),
     panic |-> "none"]

\* SlotMap::insert: [map, idx, panic].  With a free-list head that is out of
\* range or names an occupied slot the call panics before it writes.
SlotInsert(m, value) ==
    IF m.first_free >= 0
    THEN LET idx == m.first_free
         IN IF ~InBounds(m, idx)
            THEN [map |-> m, idx |-> idx, panic |-> "index out of bounds"]
            ELSE IF m.slots[idx + 1].occ
            THEN [map |-> m, idx |-> idx, panic |-> "internal error: entered unreachable code"]
            ELSE [map |-> [slots |-> [m.slots EXCEPT ![idx + 1] = Occupied(value)],
                           first_free |-> m.slots[idx + 1].next_free],
                  idx |-> idx, panic |-> "none"]
    ELSE [map |-> [m EXCEPT !.slots = Append(@, Occupied(value))],
          idx |-> Len(m.slots), panic |-> "none"]

\* A remove that gives the last slot back to the allocator.
remove_shrinks(m, index) ==
    IF ~InBounds(m, index)
    THEN [map |-> m, val |-> Null, panic |-> "index out of bounds"]
    ELSE IF ~m.slots[index + 1].occ
    THEN [map |-> m, val |-> Null, panic |-> "slot already free"]
    ELSE IF index + 1 = Len(m.slots)
    THEN [map |-> [m EXCEPT !.slots = SubSeq(@, 1, index)],
          val |-> m.slots[index + 1].val, panic |-> "none"]
    ELSE [map |-> [slots |-> [m.slots EXCEPT ![index + 1] = Free(m.first_free)],
                   first_free |-> index],
          val |-> m.slots[index + 1].val, panic |-> "none"]

\* A remove that starts a new free list at the slot it frees.
remove_forgets_link(m, index) ==
    IF ~InBounds(m, index)
    THEN [map |-> m, val |-> Null, panic |-> "index out of bounds"]
    ELSE LET old == m.slots[index + 1]
             m1 == [slots |-> [m.slots EXCEPT ![index + 1] = Free(NoFree)],
                    first_free |-> index]
         IN IF old.occ
            THEN [map |-> m1, val |-> old.val, panic |-> "none"]
            ELSE [map |-> m1, val |-> Null, panic |-> "slot already free"]

\* A remove that fills the hole with the last entry, as Vec::swap_remove does.
remove_swaps_last(m, index) ==
    IF ~InBounds(m, index)
    THEN [map |-> m, val |-> Null, panic |-> "index out of bounds"]
    ELSE LET old == m.slots[index + 1]
             last == Len(m.slots)
             m1 == IF m.slots[last].occ
                   THEN [slots |-> [m.slots EXCEPT ![index + 1] = m.slots[last],
                                                   ![last] = Free(m.first_free)],
                         first_free |-> last - 1]
                   ELSE [slots |-> [m.slots EXCEPT ![index + 1] = Free(m.first_free)],
                         first_free |-> index]
         IN IF old.occ
            THEN [map |-> m1, val |-> old.val, panic |-> "none"]
            ELSE [map |-> m, val |-> Null, panic |-> "slot already free"]

\* A remove that hands out what it finds in a free slot.
remove_unchecked(m, index) ==
    IF ~InBounds(m, index)
    THEN [map |-> m, val |-> Null, panic |-> "index out of bounds"]
    ELSE [map |-> [slots |-> [m.slots EXCEPT ![index + 1] = Free(m.first_free)],
                   first_free |-> index],
          val |-> [inner |-> 1, size |-> 0], panic |-> "none"]

\* SlotMap::remove: [map, val, panic]
SlotRemove(m, index) ==
    IF ~InBounds(m, index)
    THEN [map |-> m, val |-> Null, panic |-> "index out of bounds"]
    ELSE LET old == m.slots[index + 1]
             m1 == [slots |-> [m.slots EXCEPT ![index + 1] = Free(m.first_free)],
                    first_free |-> index]
         IN IF old.occ
            THEN [map |-> m1, val |-> old.val, panic |-> "none"]
            ELSE [map |-> m1, val |-> Null, panic |-> "slot already free"]

\* A get that hands out what it finds in a free slot.
get_unchecked(m, index) ==
    IF ~InBounds(m, index)
    THEN [val |-> Null, panic |-> "index out of bounds"]
    ELSE [val |-> [inner |-> 1, size |-> 0], panic |-> "none"]

\* SlotMap::get through SlotMapRefCell::with: [val, panic]
SlotGet(m, index) ==
    IF ~InBounds(m, index)
    THEN [val |-> Null, panic |-> "index out of bounds"]
    ELSE IF m.slots[index + 1].occ
         THEN [val |-> m.slots[index + 1].val, panic |-> "none"]
         ELSE [val |-> Null, panic |-> "slot is free"]

BufferSlot(inner, size) == [inner |-> inner, size |-> size]
TextureSlot(inner, res) == [inner |-> inner, res |-> res]
ShaderSlot(inner) == [inner |-> inner]
ComputePipelineSlot(inner) == [inner |-> inner]

\* The handles of the occupied slots.
LiveHandles(m) == {i \in 0..(Len(m.slots) - 1) : m.slots[i + 1].occ}

\* An iteration that does not skip free slots.
iter_every_slot(m) == [i \in 1..Len(m.slots) |-> <<i - 1, m.slots[i].val>>]

\* SlotMap::iter: the <<index, value>> of the occupied slots, in storage order.
SlotIter(m) ==
    LET all == [i \in 1..Len(m.slots) |-> <<i - 1, m.slots[i]>>]
        IsOccupied(e) == e[2].occ
        kept == SelectSeq(all, IsOccupied)
    IN [k \in 1..Len(kept) |-> <<kept[k][1], kept[k][2].val>>]

\* RefCell::borrow / borrow_mut on the flag: the number of shared borrows, or
\* Writing while the exclusive one is out.  "none" or the panic.
Writing == -1
RefCell_borrow(flag) ==
    IF flag = Writing THEN "already mutably borrowed: BorrowError" ELSE "none"
RefCell_borrow_mut(flag) ==
    IF flag # 0 THEN "already borrowed: BorrowMutError" ELSE "none"

\* SlotMapRefCell::insert; the borrow ends with the statement.
Cell_insert(s, value) ==
    IF RefCell_borrow_mut(s.cell.borrow) # "none"
    THEN Panic(s, RefCell_borrow_mut(s.cell.borrow))
    ELSE LET ins == SlotInsert(s.cell.inner, value)
         IN IF ins.panic # "none" THEN Panic(s, ins.panic)
            ELSE [s EXCEPT !.cell.inner = ins.map]

\* A remove that goes to the SlotMap past the RefCell.
remove_without_borrow(s, index) ==
    LET rem == SlotRemove(s.cell.inner, index)
        s1 == [s EXCEPT !.cell.inner = rem.map]
    IN IF rem.panic # "none" THEN Panic(s1, rem.panic) ELSE s1

\* SlotMapRefCell::remove
Cell_remove(s, index) ==
    IF RefCell_borrow_mut(s.cell.borrow) # "none"
    THEN Panic(s, RefCell_borrow_mut(s.cell.borrow))
    ELSE LET rem == SlotRemove(s.cell.inner, index)
             s1 == [s EXCEPT !.cell.inner = rem.map]
         IN IF rem.panic # "none" THEN Panic(s1, rem.panic) ELSE s1

\* SlotMapRefCell::with up to the call of f: the shared borrow is taken, the
\* slot resolved, and f runs holding the reference.
Cell_with(s, index) ==
    IF RefCell_borrow(s.cell.borrow) # "none"
    THEN Panic(s, RefCell_borrow(s.cell.borrow))
    ELSE LET g == SlotGet(s.cell.inner, index)
         IN IF g.panic # "none" THEN Panic(s, g.panic)
            ELSE [s EXCEPT !.cell.borrow = @ + 1,
                           !.frames = Append(@, [kind |-> "with", index |-> index])]

\* SlotMapRefCell::with_mut up to the call of f
Cell_with_mut(s, index) ==
    IF RefCell_borrow_mut(s.cell.borrow) # "none"
    THEN Panic(s, RefCell_borrow_mut(s.cell.borrow))
    ELSE LET g == SlotGet(s.cell.inner, index)
         IN IF g.panic # "none" THEN Panic(s, g.panic)
            ELSE [s EXCEPT !.cell.borrow = Writing,
                           !.frames = Append(@, [kind |-> "with_mut", index |-> index])]

\* SlotMapRefCell::for_each up to the first call of f; with no occupied slot f
\* is never called and for_each returns.
Cell_for_each(s) ==
    IF RefCell_borrow(s.cell.borrow) # "none"
    THEN Panic(s, RefCell_borrow(s.cell.borrow))
    ELSE IF SlotIter(s.cell.inner) = <<>> THEN s
    ELSE [s EXCEPT !.cell.borrow = @ + 1,
                   !.frames = Append(@, [kind |-> "for_each",
                                         index |-> SlotIter(s.cell.inner)[1][1]])]

\* The innermost closure returns (for_each: its last call of f) and the
\* borrow it ran under is dropped.
Closure_return(s) ==
    LET top == s.frames[Len(s.frames)]
    IN [s EXCEPT !.frames = SubSeq(@, 1, Len(@) - 1),
                 !.cell.borrow = IF top.kind = "with_mut" THEN 0 ELSE @ - 1]

\* ------------------------------------------------------- the native layer
Log(s, fn, cmd, obj, chk) ==
    [s EXCEPT !.calls = Append(@, [fn |-> fn, cmd |-> cmd, obj |-> obj, chk |-> chk])]

IdleCmd == [recording |-> FALSE, open |-> <<>>, reads |-> {}]

\* Some command buffer still recording holds a copy that reads transfer buffer t.
InUse(s, t) == \E c \in CmdIds : s.gcmd[c].recording /\ t \in s.gcmd[c].reads

SDL_CreateGPUTransferBuffer(s, raw) ==
    LET s1 == Log(s, "SDL_CreateGPUTransferBuffer", Null, raw, "ok")
    IN IF raw = Null THEN s1
       ELSE [s1 EXCEPT !.gtb[raw] = TRUE]

SDL_ReleaseGPUTransferBuffer(s, t) ==
    LET chk == IF ~s.gtb[t] THEN "not_live"
               ELSE IF InUse(s, t) THEN "in_use" ELSE "ok"
        s1 == Log(s, "SDL_ReleaseGPUTransferBuffer", Null, t, chk)
    IN [s1 EXCEPT !.gtb[t] = FALSE]

SDL_AcquireGPUCommandBuffer(s, raw) ==
    LET s1 == Log(s, "SDL_AcquireGPUCommandBuffer", raw, Null, "ok")
    IN IF raw \in CmdIds
       THEN [s1 EXCEPT !.gcmd[raw] = [IdleCmd EXCEPT !.recording = TRUE]]
       ELSE s1

\* Submit and cancel consume the command buffer whatever they report.
SDL_SubmitGPUCommandBuffer(s, cmd) ==
    LET chk == IF cmd \notin CmdIds THEN "ok"
               ELSE IF ~s.gcmd[cmd].recording THEN "not_recording"
               ELSE IF s.gcmd[cmd].open # <<>> THEN "pass_open" ELSE "ok"
        s1 == Log(s, "SDL_SubmitGPUCommandBuffer", cmd, Null, chk)
    IN IF cmd \in CmdIds THEN [s1 EXCEPT !.gcmd[cmd] = IdleCmd] ELSE s1

SDL_CancelGPUCommandBuffer(s, cmd) ==
    LET chk == IF cmd \notin CmdIds THEN "ok"
               ELSE IF ~s.gcmd[cmd].recording THEN "not_recording"
               ELSE IF s.gcmd[cmd].open # <<>> THEN "pass_open" ELSE "ok"
        s1 == Log(s, "SDL_CancelGPUCommandBuffer", cmd, Null, chk)
    IN IF cmd \in CmdIds THEN [s1 EXCEPT !.gcmd[cmd] = IdleCmd] ELSE s1

BeginFn(kind) ==
    CASE kind = "copy" -> "SDL_BeginGPUCopyPass"
      [] kind = "render" -> "SDL_BeginGPURenderPass"
      [] kind = "compute" -> "SDL_BeginGPUComputePass"

EndFn(kind) ==
    CASE kind = "copy" -> "SDL_EndGPUCopyPass"
      [] kind = "render" -> "SDL_EndGPURenderPass"
      [] kind = "compute" -> "SDL_EndGPUComputePass"

\* A begin call that returns a pass (ok) opens it on the command buffer.
SDL_BeginGPUPass(s, cmd, kind, ok) ==
    LET chk == IF cmd \in CmdIds /\ s.gcmd[cmd].open # <<>> THEN "pass_open" ELSE "ok"
        s1 == Log(s, BeginFn(kind), cmd, Null, chk)
    IN IF ok /\ cmd \in CmdIds
       THEN [s1 EXCEPT !.gcmd[cmd].open = Append(@, kind)]
       ELSE s1

RemoveFirst(seq, x) ==
    LET i == CHOOSE k \in 1..Len(seq) :
                 seq[k] = x /\ \A j \in 1..(k - 1) : seq[j] # x
    IN SubSeq(seq, 1, i - 1) \o SubSeq(seq, i + 1, Len(seq))

SDL_EndGPUPass(s, cmd, kind) ==
    LET has == cmd \in CmdIds /\ \E k \in 1..Len(s.gcmd[cmd].open) : s.gcmd[cmd].open[k] = kind
        chk == IF cmd \in CmdIds /\ ~has THEN "no_such_pass" ELSE "ok"
        s1 == Log(s, EndFn(kind), cmd, Null, chk)
    IN IF has THEN [s1 EXCEPT !.gcmd[cmd].open = RemoveFirst(@, kind)] ELSE s1

\* Records a copy that reads transfer buffer tb into the pass open on cmd.
SDL_UploadToGPU(s, fn, cmd, tb) ==
    LET s1 == Log(s, fn, cmd, tb, IF tb # Null /\ ~s.gtb[tb] THEN "not_live" ELSE "ok")
    IN IF cmd \in CmdIds
       THEN [s1 EXCEPT !.gcmd[cmd].reads = @ \cup {tb}]
       ELSE s1

SDL_CreateGPUBuffer(s, raw) ==
    LET s1 == Log(s, "SDL_CreateGPUBuffer", Null, raw, "ok")
    IN IF raw = Null THEN s1
       ELSE [s1 EXCEPT !.gbuf[raw] = TRUE]

SDL_ReleaseGPUBuffer(s, b) ==
    LET s1 == Log(s, "SDL_ReleaseGPUBuffer", Null, b, IF s.gbuf[b] THEN "ok" ELSE "not_live")
    IN [s1 EXCEPT !.gbuf[b] = FALSE]

SDL_CreateGPUShader(s, raw) ==
    LET s1 == Log(s, "SDL_CreateGPUShader", Null, raw, "ok")
    IN IF raw = Null THEN s1
       ELSE [s1 EXCEPT !.gshader[raw] = TRUE]

SDL_ReleaseGPUShader(s, x) ==
    LET s1 == Log(s, "SDL_ReleaseGPUShader", Null, x,
                  IF s.gshader[x] THEN "ok" ELSE "not_live")
    IN [s1 EXCEPT !.gshader[x] = FALSE]

SDL_CreateGPUComputePipeline(s, raw) ==
    LET s1 == Log(s, "SDL_CreateGPUComputePipeline", Null, raw, "ok")
    IN IF raw = Null THEN s1
       ELSE [s1 EXCEPT !.gpipeline[raw] = TRUE]

SDL_ReleaseGPUComputePipeline(s, x) ==
    LET s1 == Log(s, "SDL_ReleaseGPUComputePipeline", Null, x,
                  IF s.gpipeline[x] THEN "ok" ELSE "not_live")
    IN [s1 EXCEPT !.gpipeline[x] = FALSE]

SDL_CreateGPUTexture(s, raw) ==
    LET s1 == Log(s, "SDL_CreateGPUTexture", Null, raw, "ok")
    IN IF raw = Null THEN s1
       ELSE [s1 EXCEPT !.gtex[raw] = TRUE]

SDL_ReleaseGPUTexture(s, x) ==
    LET s1 == Log(s, "SDL_ReleaseGPUTexture", Null, x, IF s.gtex[x] THEN "ok" ELSE "not_live")
    IN [s1 EXCEPT !.gtex[x] = FALSE]

\* ------------------------------------------------------- device.rs: Device
Ret(s, r) == [s |-> s, ret |-> r]

NoSwapchain == <<Null, 0, 0>>
DeadCommandBuffer == [alive |-> FALSE, submitted |-> FALSE, pass |-> "none", sw |-> NoSwapchain]

WrapU(x) == x % (2^WordBits)
SaturatingAdd(a, b) == IF a + b > UMax THEN UMax ELSE a + b

\* The application's record of its buffer handles: `held` is the
\* <<handle, value>> it was given by create_buffer and has not destroyed,
\* `freed` the handles it destroyed and was not given again, oldest first.
NoneIssued == [held |-> {}, freed |-> <<>>]

Given(s, handle, value) ==
    LET Other(h) == h # handle
    IN [s EXCEPT !.issued = [held |-> @.held \cup {<<handle, value>>},
                             freed |-> SelectSeq(@.freed, Other)]]

GivenBack(s, handle) ==
    [s EXCEPT !.issued = [held |-> {p \in @.held : p[1] # handle},
                          freed |-> Append(@.freed, handle)]]

\* A create that registers the native result before looking at it.
create_inserts_first(s, size, raw) ==
    LET s1 == SDL_CreateGPUBuffer(s, raw)
        ins == SlotInsert(s1.buffers, BufferSlot(raw, size))
        s2 == [s1 EXCEPT !.buffers = ins.map]
    IN IF raw = Null
       THEN Ret(s2, "SDL_CreateGPUBuffer failed")
       ELSE Ret(Given(s2, ins.idx, BufferSlot(raw, size)), "Ok")

\* Device::create_buffer returns Ok(GPUBuffer(idx)); the handle goes to `issued`.
create_buffer(s, size, raw) ==
    LET s1 == SDL_CreateGPUBuffer(s, raw)
    IN IF raw = Null
       THEN Ret(s1, "SDL_CreateGPUBuffer failed")
       ELSE LET ins == SlotInsert(s1.buffers, BufferSlot(raw, size))
            IN Ret(Given([s1 EXCEPT !.buffers = ins.map], ins.idx, BufferSlot(raw, size)),
                   "Ok")

\* A destroy that releases the native buffer and leaves it in its slot.
destroy_keeps_slot(s, handle) ==
    LET g == SlotGet(s.buffers, handle)
    IN IF g.panic # "none"
       THEN Ret(Panic(s, g.panic), "panic")
       ELSE Ret(GivenBack(SDL_ReleaseGPUBuffer(s, g.val.inner), handle), "Ok")

\* Device::destroy_buffer
destroy_buffer(s, handle) ==
    LET rem == SlotRemove(s.buffers, handle)
        s1 == [s EXCEPT !.buffers = rem.map]
    IN IF rem.panic # "none"
       THEN Ret(Panic(s1, rem.panic), "panic")
       ELSE Ret(GivenBack(SDL_ReleaseGPUBuffer(s1, rem.val.inner), handle), "Ok")

\* Device::create_texture; res is (info.width, info.height)
create_texture(s, res, raw) ==
    LET s1 == SDL_CreateGPUTexture(s, raw)
    IN IF raw = Null
       THEN Ret(s1, "SDL_CreateGPUTexture failed")
       ELSE LET ins == SlotInsert(s1.textures, TextureSlot(raw, res))
            IN Ret([s1 EXCEPT !.textures = ins.map], "Ok")

\* Device::destroy_texture
destroy_texture(s, handle) ==
    LET rem == SlotRemove(s.textures, handle)
        s1 == [s EXCEPT !.textures = rem.map]
    IN IF rem.panic # "none"
       THEN Ret(Panic(s1, rem.panic), "panic")
       ELSE Ret(SDL_ReleaseGPUTexture(s1, rem.val.inner), "Ok")

\* std::ffi::CString::new: the bytes with a terminator appended, or an error
\* when a byte of the input is the terminator.
NUL == 0
CString_new(bytes) ==
    IF \E i \in DOMAIN bytes : bytes[i] = NUL
    THEN [ok |-> FALSE, val |-> <<>>]
    ELSE [ok |-> TRUE, val |-> Append(bytes, NUL)]

\* A create_shader that converts the entry point after the native call.
create_shader_converts_late(s, entrypoint, raw) ==
    LET s1 == SDL_CreateGPUShader(s, raw)
    IN IF raw = Null
       THEN Ret(s1, "SDL_CreateGPUShader failed")
       ELSE LET ins == SlotInsert(s1.shaders, ShaderSlot(raw))
                s2 == [s1 EXCEPT !.shaders = ins.map]
            IN IF ~CString_new(entrypoint).ok
               THEN Ret(s2, "entrypoint contains interior nul byte")
               ELSE Ret(s2, "Ok")

\* Device::create_shader
create_shader(s, entrypoint, raw) ==
    IF ~CString_new(entrypoint).ok
    THEN Ret(s, "entrypoint contains interior nul byte")
    ELSE LET s1 == SDL_CreateGPUShader(s, raw)
         IN IF raw = Null
            THEN Ret(s1, "SDL_CreateGPUShader failed")
            ELSE LET ins == SlotInsert(s1.shaders, ShaderSlot(raw))
                 IN Ret([s1 EXCEPT !.shaders = ins.map], "Ok")

\* Device::destroy_shader
destroy_shader(s, handle) ==
    LET rem == SlotRemove(s.shaders, handle)
        s1 == [s EXCEPT !.shaders = rem.map]
    IN IF rem.panic # "none"
       THEN Ret(Panic(s1, rem.panic), "panic")
       ELSE Ret(SDL_ReleaseGPUShader(s1, rem.val.inner), "Ok")

\* Device::create_compute_pipeline
create_compute_pipeline(s, entrypoint, raw) ==
    IF ~CString_new(entrypoint).ok
    THEN Ret(s, "entrypoint contains interior nul byte")
    ELSE LET s1 == SDL_CreateGPUComputePipeline(s, raw)
         IN IF raw = Null
            THEN Ret(s1, "SDL_CreateGPUComputePipeline failed")
            ELSE LET ins == SlotInsert(s1.compute_pipelines, ComputePipelineSlot(raw))
                 IN Ret([s1 EXCEPT !.compute_pipelines = ins.map], "Ok")

\* Device::destroy_compute_pipeline
destroy_compute_pipeline(s, handle) ==
    LET rem == SlotRemove(s.compute_pipelines, handle)
        s1 == [s EXCEPT !.compute_pipelines = rem.map]
    IN IF rem.panic # "none"
       THEN Ret(Panic(s1, rem.panic), "panic")
       ELSE Ret(SDL_ReleaseGPUComputePipeline(s1, rem.val.inner), "Ok")

\* A texture_raw that looks every handle up in the registry.
texture_raw_by_slot(s, handle) ==
    LET g == SlotGet(s.textures, handle)
    IN [val |-> IF g.panic = "none" THEN g.val.inner ELSE Null, panic |-> g.panic]

\* Device::texture_raw: [val, panic]
texture_raw(s, handle) ==
    IF handle = SWAPCHAIN
    THEN IF s.swapchain[1] = Null
         THEN [val |-> Null, panic |-> "no swapchain texture acquired"]
         ELSE [val |-> s.swapchain[1], panic |-> "none"]
    ELSE LET g == SlotGet(s.textures, handle)
         IN [val |-> IF g.panic = "none" THEN g.val.inner ELSE Null, panic |-> g.panic]

\* Device::texture_res: [val, panic], val the (width, height)
texture_res(s, handle) ==
    IF handle = SWAPCHAIN
    THEN IF s.swapchain[1] = Null
         THEN [val |-> <<0, 0>>, panic |-> "no swapchain texture acquired"]
         ELSE [val |-> <<s.swapchain[2], s.swapchain[3]>>, panic |-> "none"]
    ELSE LET g == SlotGet(s.textures, handle)
         IN [val |-> IF g.panic = "none" THEN g.val.res ELSE <<0, 0>>, panic |-> g.panic]

\* Device::buffer_raw: [val, panic]
buffer_raw(s, handle) ==
    LET g == SlotGet(s.buffers, handle)
    IN [val |-> IF g.panic = "none" THEN g.val.inner ELSE Null, panic |-> g.panic]

\* The first panic of resolving the handles of seq in order, or "none".
RECURSIVE FirstPanic(_, _, _)
FirstPanic(s, seq, kind) ==
    IF seq = <<>> THEN "none"
    ELSE LET r == IF kind = "texture" THEN texture_raw(s, Head(seq))
                  ELSE buffer_raw(s, Head(seq))
         IN IF r.panic # "none" THEN r.panic ELSE FirstPanic(s, Tail(seq), kind)

\* A staging buffer reused only when strictly larger than the request.
ensure_strictly_larger(s, size, raw) ==
    LET current == s.upload[1]
    IN IF current # Null /\ s.upload[2] > size
       THEN [s |-> s, val |-> current, err |-> "none"]
       ELSE LET s1 == IF current # Null
                      THEN [s EXCEPT !.pending = Append(@, current)]
                      ELSE s
                s2 == SDL_CreateGPUTransferBuffer(s1, raw)
            IN IF raw = Null
               THEN [s |-> [s2 EXCEPT !.upload = <<Null, 0>>], val |-> Null,
                     err |-> "SDL_CreateGPUTransferBuffer failed"]
               ELSE [s |-> [s2 EXCEPT !.upload = <<raw, size>>], val |-> raw,
                     err |-> "none"]

\* A growth that keeps tracking the old buffer when the creation fails.
ensure_keeps_on_failure(s, size, raw) ==
    LET current == s.upload[1]
        current_size == s.upload[2]
    IN IF current # Null /\ current_size >= size
       THEN [s |-> s, val |-> current, err |-> "none"]
       ELSE LET s1 == IF current # Null
                      THEN [s EXCEPT !.pending = Append(@, current)]
                      ELSE s
                s2 == SDL_CreateGPUTransferBuffer(s1, raw)
            IN IF raw = Null
               THEN [s |-> s2, val |-> Null,
                     err |-> "SDL_CreateGPUTransferBuffer failed"]
               ELSE [s |-> [s2 EXCEPT !.upload = <<raw, size>>], val |-> raw,
                     err |-> "none"]

\* Device::ensure_upload_transfer_buffer: [s, val, err]; raw is what the native
\* creation call returns when the code makes it.
ensure_upload_transfer_buffer(s, size, raw) ==
    LET current == s.upload[1]
        current_size == s.upload[2]
    IN IF current # Null /\ current_size >= size
       THEN [s |-> s, val |-> current, err |-> "none"]
       ELSE LET s1 == IF current # Null
                      THEN [s EXCEPT !.pending = Append(@, current)]
                      ELSE s
                s2 == SDL_CreateGPUTransferBuffer(s1, raw)
            IN IF raw = Null
               THEN [s |-> [s2 EXCEPT !.upload = <<Null, 0>>], val |-> Null,
                     err |-> "SDL_CreateGPUTransferBuffer failed"]
               ELSE [s |-> [s2 EXCEPT !.upload = <<raw, size>>], val |-> raw,
                     err |-> "none"]

\* A drain that releases the oldest entry alone.
ReleaseOldest(s, seq) ==
    IF seq = <<>> THEN s
    ELSE SDL_ReleaseGPUTransferBuffer(s, Head(seq))

RECURSIVE ReleaseEach(_, _)
ReleaseEach(s, seq) ==
    IF seq = <<>> THEN s
    ELSE ReleaseEach(SDL_ReleaseGPUTransferBuffer(s, Head(seq)), Tail(seq))

\* A finish that drains whatever the counter was.
DrainAtEveryFinish(s) ==
    LET s1 == [s EXCEPT !.count = WrapU(s.count - 1)]
    IN [ReleaseEach(s1, s1.pending) EXCEPT !.pending = <<>>]

\* Device::on_command_buffer_done.  fetch_sub wraps; the debug_assert on
\* prev > 0 is compiled out of release builds.
on_command_buffer_done(s) ==
    LET prev == s.count
        s1 == [s EXCEPT !.count = WrapU(prev - 1)]
    IN IF prev = 1
       THEN [ReleaseEach(s1, s1.pending) EXCEPT !.pending = <<>>]
       ELSE s1

\* An acquire that counts the command buffer before it knows it has one.
acquire_counted_first(s, raw) ==
    LET s1 == [SDL_AcquireGPUCommandBuffer(s, raw) EXCEPT !.count = WrapU(@ + 1)]
    IN IF raw = Null
       THEN Ret(s1, "SDL_AcquireGPUCommandBuffer failed")
       ELSE Ret([s1 EXCEPT !.cbs[raw] = [DeadCommandBuffer EXCEPT !.alive = TRUE]], "Ok")

\* An acquire that hands out the command buffer without counting it.
acquire_uncounted(s, raw) ==
    LET s1 == SDL_AcquireGPUCommandBuffer(s, raw)
    IN IF raw = Null
       THEN Ret(s1, "SDL_AcquireGPUCommandBuffer failed")
       ELSE Ret([s1 EXCEPT !.cbs[raw] = [DeadCommandBuffer EXCEPT !.alive = TRUE]], "Ok")

\* Device::acquire_command_buffer
acquire_command_buffer(s, raw) ==
    LET s1 == SDL_AcquireGPUCommandBuffer(s, raw)
    IN IF raw = Null
       THEN Ret(s1, "SDL_AcquireGPUCommandBuffer failed")
       ELSE Ret([s1 EXCEPT !.count = WrapU(@ + 1),
                           !.cbs[raw] = [DeadCommandBuffer EXCEPT !.alive = TRUE]],
                "Ok")

\* The map / copy_nonoverlapping / unmap block of the uploads.  The code does
\* not test the mapped pointer: with a null mapping the copy is undefined
\* behaviour, which either kills the process or goes unnoticed.
\* map is "ok", "null_crash" or "null_unnoticed".
MapCopyUnmap(s, transfer, map) ==
    LET s1 == Log(s, "SDL_MapGPUTransferBuffer", Null, transfer,
                  IF map = "ok" THEN "ok" ELSE "null")
    IN IF map = "null_crash"
       THEN Panic(s1, "write through null mapping")
       ELSE Log(s1, "SDL_UnmapGPUTransferBuffer", Null, transfer, "ok")

\* A tail that returns on a failed begin without cancelling its command buffer.
RecordOrSubmit_no_cancel(s, fn, pass, transfer, tmp) ==
    IF pass # Null
    THEN Ret(SDL_UploadToGPU(s, fn, pass, transfer), "Ok")
    ELSE LET s1 == SDL_AcquireGPUCommandBuffer(s, IF tmp = "acquire" THEN Null ELSE TmpCmd)
         IN IF tmp = "acquire"
            THEN Ret(s1, "SDL_AcquireGPUCommandBuffer failed")
            ELSE LET s2 == SDL_BeginGPUPass(s1, TmpCmd, "copy", tmp # "begin")
                 IN IF tmp = "begin"
                    THEN Ret(s2, "SDL_BeginGPUCopyPass failed")
                    ELSE LET s3 == SDL_UploadToGPU(s2, fn, TmpCmd, transfer)
                             s4 == SDL_EndGPUPass(s3, TmpCmd, "copy")
                             s5 == SDL_SubmitGPUCommandBuffer(s4, TmpCmd)
                         IN Ret(s5, IF tmp # "submit" THEN "Ok"
                                    ELSE "SDL_SubmitGPUCommandBuffer failed")

\* A tail that finishes its own command buffer the way CommandBuffer does.
RecordOrSubmit_counts_own(s, fn, pass, transfer, tmp) ==
    IF pass # Null
    THEN Ret(SDL_UploadToGPU(s, fn, pass, transfer), "Ok")
    ELSE LET s1 == SDL_AcquireGPUCommandBuffer(s, IF tmp = "acquire" THEN Null ELSE TmpCmd)
         IN IF tmp = "acquire"
            THEN Ret(s1, "SDL_AcquireGPUCommandBuffer failed")
            ELSE LET s2 == SDL_BeginGPUPass(s1, TmpCmd, "copy", tmp # "begin")
                 IN IF tmp = "begin"
                    THEN Ret(SDL_CancelGPUCommandBuffer(s2, TmpCmd),
                             "SDL_BeginGPUCopyPass failed")
                    ELSE LET s3 == SDL_UploadToGPU(s2, fn, TmpCmd, transfer)
                             s4 == SDL_EndGPUPass(s3, TmpCmd, "copy")
                             s5 == SDL_SubmitGPUCommandBuffer(s4, TmpCmd)
                         IN Ret(on_command_buffer_done(s5),
                                IF tmp # "submit" THEN "Ok"
                                ELSE "SDL_SubmitGPUCommandBuffer failed")

\* The tail shared by upload_to_buffer and upload_to_texture: record into the
\* caller's pass, or acquire / record / submit a command buffer of its own.
\* tmp is the first native call of its own that fails, or "ok".
RecordOrSubmit(s, fn, pass, transfer, tmp) ==
    IF pass # Null
    THEN Ret(SDL_UploadToGPU(s, fn, pass, transfer), "Ok")
    ELSE LET s1 == SDL_AcquireGPUCommandBuffer(s, IF tmp = "acquire" THEN Null ELSE TmpCmd)
         IN IF tmp = "acquire"
            THEN Ret(s1, "SDL_AcquireGPUCommandBuffer failed")
            ELSE LET s2 == SDL_BeginGPUPass(s1, TmpCmd, "copy", tmp # "begin")
                 IN IF tmp = "begin"
                    THEN Ret(SDL_CancelGPUCommandBuffer(s2, TmpCmd),
                             "SDL_BeginGPUCopyPass failed")
                    ELSE LET s3 == SDL_UploadToGPU(s2, fn, TmpCmd, transfer)
                             s4 == SDL_EndGPUPass(s3, TmpCmd, "copy")
                             s5 == SDL_SubmitGPUCommandBuffer(s4, TmpCmd)
                         IN Ret(s5, IF tmp # "submit" THEN "Ok"
                                    ELSE "SDL_SubmitGPUCommandBuffer failed")

\* An upload that sizes the staging buffer before it checks the range.
upload_checks_late(s, pass, buffer, offset, size, raw, map, tmp) ==
    LET g == SlotGet(s.buffers, buffer)
    IN IF g.panic # "none" THEN Ret(Panic(s, g.panic), "panic")
       ELSE LET e == ensure_upload_transfer_buffer(s, size, raw)
            IN IF e.err # "none" THEN Ret(e.s, e.err)
               ELSE IF SaturatingAdd(offset, size) > g.val.size
               THEN Ret(e.s, "data exceeds buffer size")
               ELSE RecordOrSubmit(MapCopyUnmap(e.s, e.val, map),
                                   "SDL_UploadToGPUBuffer", pass, e.val, tmp)

\* Device::upload_to_buffer.  pass is the command buffer whose open copy pass
\* is supplied, or Null for None.
upload_to_buffer(s, pass, buffer, offset, size, raw, map, tmp) ==
    LET g == SlotGet(s.buffers, buffer)
    IN IF g.panic # "none" THEN Ret(Panic(s, g.panic), "panic")
       ELSE IF SaturatingAdd(offset, size) > g.val.size
       THEN Ret(s, "data exceeds buffer size")
       ELSE LET e == ensure_upload_transfer_buffer(s, size, raw)
            IN IF e.err # "none" THEN Ret(e.s, e.err)
               ELSE LET s1 == MapCopyUnmap(e.s, e.val, map)
                    IN IF s1.fault # "none" THEN Ret(s1, "panic")
                       ELSE RecordOrSubmit(s1, "SDL_UploadToGPUBuffer", pass, e.val, tmp)

\* Device::upload_to_texture.  texture is region.texture.
upload_to_texture(s, pass, texture, size, raw, map, tmp) ==
    LET e == ensure_upload_transfer_buffer(s, size, raw)
    IN IF e.err # "none" THEN Ret(e.s, e.err)
       ELSE LET s1 == MapCopyUnmap(e.s, e.val, map)
                dst == texture_raw(s1, texture)
            IN IF s1.fault # "none" THEN Ret(s1, "panic")
               ELSE IF dst.panic # "none" THEN Ret(Panic(s1, dst.panic), "panic")
               ELSE RecordOrSubmit(s1, "SDL_UploadToGPUTexture", pass, e.val, tmp)

\* The byte at position i of a native buffer: its position, so that the bytes
\* a download returns tell the range they were read from.
BufferByte(i) == i

\* Integer overflow is a panic when the build checks it (the dev profile) and
\* wraps when it does not (the release profile).
Builds == {"checked", "wrapping"}

\* A size 0 that stands for the whole buffer whatever the offset.
RequestedSize_whole(buf_size, offset, size, build) ==
    [val |-> IF size = 0 THEN buf_size ELSE size, panic |-> "none"]

\* download_from_buffer: `if size == 0 { buf_size - offset } else { size }`
RequestedSize(buf_size, offset, size, build) ==
    IF size # 0 THEN [val |-> size, panic |-> "none"]
    ELSE IF offset > buf_size /\ build = "checked"
    THEN [val |-> 0, panic |-> "attempt to subtract with overflow"]
    ELSE [val |-> WrapU(buf_size - offset), panic |-> "none"]

\* A wait that, when it fails, releases the staging buffer and not the fence.
DownloadWait_keeps_fence(s, transfer, staged, env) ==
    LET s1 == Log(s, "SDL_WaitForGPUFences", Null, TmpFence, "ok")
    IN IF env = "wait"
       THEN Ret(SDL_ReleaseGPUTransferBuffer(s1, transfer), "SDL_WaitForGPUFences failed")
       ELSE LET s2 == Log(s1, "SDL_ReleaseGPUFence", Null, TmpFence, "ok")
                s3 == Log(s2, "SDL_MapGPUTransferBuffer", Null, transfer,
                          IF env = "map" THEN "null" ELSE "ok")
            IN IF env = "map"
               THEN Ret(SDL_ReleaseGPUTransferBuffer(s3, transfer),
                        "SDL_MapGPUTransferBuffer failed")
               ELSE LET s4 == Log(s3, "SDL_UnmapGPUTransferBuffer", Null, transfer, "ok")
                    IN Ret([SDL_ReleaseGPUTransferBuffer(s4, transfer)
                                EXCEPT !.data = staged], "Ok(data)")

\* download_from_buffer from the fence wait on: wait, release the fence, map,
\* copy the staged bytes out, unmap, release the staging buffer.
DownloadWait(s, transfer, staged, env) ==
    LET s1 == Log(s, "SDL_WaitForGPUFences", Null, TmpFence, "ok")
    IN IF env = "wait"
       THEN Ret(SDL_ReleaseGPUTransferBuffer(
                    Log(s1, "SDL_ReleaseGPUFence", Null, TmpFence, "ok"), transfer),
                "SDL_WaitForGPUFences failed")
       ELSE LET s2 == Log(s1, "SDL_ReleaseGPUFence", Null, TmpFence, "ok")
                s3 == Log(s2, "SDL_MapGPUTransferBuffer", Null, transfer,
                          IF env = "map" THEN "null" ELSE "ok")
            IN IF env = "map"
               THEN Ret(SDL_ReleaseGPUTransferBuffer(s3, transfer),
                        "SDL_MapGPUTransferBuffer failed")
               ELSE LET s4 == Log(s3, "SDL_UnmapGPUTransferBuffer", Null, transfer, "ok")
                    IN Ret([SDL_ReleaseGPUTransferBuffer(s4, transfer)
                                EXCEPT !.data = staged], "Ok(data)")

\* download_from_buffer from the creation of the staging buffer on.  raw is
\* what the creation returns; env is the first native call that fails, or "ok".
DownloadCopy(s, offset, size, raw, env) ==
    LET s1 == SDL_CreateGPUTransferBuffer(s, raw)
    IN IF raw = Null
       THEN Ret(s1, "SDL_CreateGPUTransferBuffer (download) failed")
       ELSE LET s2 == SDL_AcquireGPUCommandBuffer(s1, IF env = "acquire" THEN Null
                                                       ELSE TmpCmd)
            IN IF env = "acquire"
               THEN Ret(SDL_ReleaseGPUTransferBuffer(s2, raw),
                        "SDL_AcquireGPUCommandBuffer failed")
               ELSE LET s3 == SDL_BeginGPUPass(s2, TmpCmd, "copy", env # "begin")
                    IN IF env = "begin"
                       THEN Ret(SDL_ReleaseGPUTransferBuffer(
                                    SDL_CancelGPUCommandBuffer(s3, TmpCmd), raw),
                                "SDL_BeginGPUCopyPass failed")
                       ELSE LET s4 == Log(s3, "SDL_DownloadFromGPUBuffer", TmpCmd, raw, "ok")
                                s5 == SDL_EndGPUPass(s4, TmpCmd, "copy")
                                s6 == Log(s5, "SDL_SubmitGPUCommandBufferAndAcquireFence",
                                          TmpCmd, IF env = "fence" THEN Null ELSE TmpFence,
                                          "ok")
                                staged == [i \in 1..size |-> BufferByte(offset + i - 1)]
                            IN IF env = "fence"
                               THEN Ret(SDL_ReleaseGPUTransferBuffer(s6, raw),
                                        "SDL_SubmitGPUCommandBufferAndAcquireFence failed")
                               ELSE DownloadWait(s6, raw, staged, env)

\* Device::download_from_buffer
download_from_buffer(s, buffer, offset, size, build, raw, env) ==
    LET g == SlotGet(s.buffers, buffer)
    IN IF g.panic # "none" THEN Ret(Panic(s, g.panic), "panic")
       ELSE LET buf_size == g.val.size
                req == RequestedSize(buf_size, offset, size, build)
            IN IF req.panic # "none" THEN Ret(Panic(s, req.panic), "panic")
               ELSE IF SaturatingAdd(offset, req.val) > buf_size
               THEN Ret(s, "requested range exceeds buffer size")
               ELSE DownloadCopy(s, offset, req.val, raw, env)

\* Device::get_swapchain_texture_format: `.expect("Device has no window")`
get_swapchain_texture_format(s) ==
    IF ~s.window
    THEN Ret(Panic(s, "Device has no window"), "panic")
    ELSE Ret(Log(s, "SDL_GetGPUSwapchainTextureFormat", Null, Null, "ok"), "Ok")

\* ------------------------------------------- device.rs: CommandBuffer, passes
\* The borrow rules the signatures state.  A pass object holds the exclusive
\* borrow of its CommandBuffer for as long as it lives (begin_* take
\* &'b mut self and return a pass of lifetime 'b), so while a pass lives the
\* CommandBuffer can be neither borrowed again nor moved nor dropped.
\* Without them: a CommandBuffer usable while its pass lives.
AliveOnly(s, c) == s.cbs[c].alive

Unborrowed(s, c) == s.cbs[c].alive /\ s.cbs[c].pass = "none"

\* CommandBuffer::acquire_swapchain_texture.  ok / tex / dims are what the
\* native call reports.
acquire_swapchain_texture(s, c, ok, tex, dims) ==
    IF ~s.window
    THEN Ret(s, "Device has no window")
    ELSE LET s1 == Log(s, "SDL_AcquireGPUSwapchainTexture", c, tex, "ok")
         IN IF ~ok
            THEN Ret(s1, "SDL_AcquireGPUSwapchainTexture failed")
            ELSE LET v == IF tex = Null THEN NoSwapchain ELSE <<tex, dims[1], dims[2]>>
                 IN Ret([s1 EXCEPT !.swapchain = v, !.cbs[c].sw = v],
                        IF tex = Null THEN "Ok(None)" ELSE "Ok(Some(SWAPCHAIN))")

\* A Drop that does not look at `submitted`.
drop_always_cancels(s, c) ==
    LET s1 == [s EXCEPT !.swapchain = NoSwapchain]
        s2 == on_command_buffer_done(SDL_CancelGPUCommandBuffer(s1, c))
    IN [s2 EXCEPT !.cbs[c] = DeadCommandBuffer]

\* A Drop that clears the swapchain state of a cancelled buffer only.
drop_keeps_swapchain(s, c) ==
    IF s.cbs[c].submitted
    THEN [s EXCEPT !.cbs[c] = DeadCommandBuffer]
    ELSE LET s1 == [s EXCEPT !.swapchain = NoSwapchain]
             s2 == on_command_buffer_done(SDL_CancelGPUCommandBuffer(s1, c))
         IN [s2 EXCEPT !.cbs[c] = DeadCommandBuffer]

\* Drop for CommandBuffer
CommandBuffer_drop(s, c) ==
    LET s1 == [s EXCEPT !.swapchain = NoSwapchain]
        s2 == IF ~s1.cbs[c].submitted
              THEN on_command_buffer_done(SDL_CancelGPUCommandBuffer(s1, c))
              ELSE s1
    IN [s2 EXCEPT !.cbs[c] = DeadCommandBuffer]

\* A submit that marks the buffer submitted only once the native call succeeded.
submit_marks_on_success(s, c, ok) ==
    LET s1 == SDL_SubmitGPUCommandBuffer(s, c)
    IN IF ~ok
       THEN Ret(CommandBuffer_drop(s1, c), "SDL_SubmitGPUCommandBuffer failed")
       ELSE Ret(CommandBuffer_drop(on_command_buffer_done(
                    [s1 EXCEPT !.cbs[c].submitted = TRUE]), c), "Ok")

\* CommandBuffer::submit; self is dropped when submit returns, on either path.
submit(s, c, ok) ==
    LET s1 == [s EXCEPT !.cbs[c].submitted = TRUE]
        s2 == on_command_buffer_done(s1)
        s3 == SDL_SubmitGPUCommandBuffer(s2, c)
    IN Ret(CommandBuffer_drop(s3, c),
           IF ok THEN "Ok" ELSE "SDL_SubmitGPUCommandBuffer failed")

\* CommandBuffer::begin_copy_pass
begin_copy_pass(s, c, ok) ==
    LET s1 == SDL_BeginGPUPass(s, c, "copy", ok)
    IN IF ~ok THEN Ret(s1, "SDL_BeginGPUCopyPass failed")
       ELSE Ret([s1 EXCEPT !.cbs[c].pass = "copy"], "Ok")

\* CommandBuffer::begin_render_pass; texs are the textures of the colour
\* targets and of the depth-stencil target, in the order to_raw resolves them.
begin_render_pass(s, c, texs, ok) ==
    LET p == FirstPanic(s, texs, "texture")
    IN IF p # "none" THEN Ret(Panic(s, p), "panic")
       ELSE LET s1 == SDL_BeginGPUPass(s, c, "render", ok)
            IN IF ~ok THEN Ret(s1, "SDL_BeginGPURenderPass failed")
               ELSE Ret([s1 EXCEPT !.cbs[c].pass = "render"], "Ok")

\* CommandBuffer::begin_compute_pass
begin_compute_pass(s, c, texs, bufs, ok) ==
    LET p == FirstPanic(s, texs, "texture")
        q == FirstPanic(s, bufs, "buffer")
    IN IF p # "none" THEN Ret(Panic(s, p), "panic")
       ELSE IF q # "none" THEN Ret(Panic(s, q), "panic")
       ELSE LET s1 == SDL_BeginGPUPass(s, c, "compute", ok)
            IN IF ~ok THEN Ret(s1, "SDL_BeginGPUComputePass failed")
               ELSE Ret([s1 EXCEPT !.cbs[c].pass = "compute"], "Ok")

\* Drop for RenderPass
RenderPass_drop(s, c) ==
    [SDL_EndGPUPass(s, c, "render") EXCEPT !.cbs[c].pass = "none"]

\* Drop for CopyPass
CopyPass_drop(s, c) ==
    [SDL_EndGPUPass(s, c, "copy") EXCEPT !.cbs[c].pass = "none"]

\* A Drop that forgets the native end call.
drop_without_end(s, c) == [s EXCEPT !.cbs[c].pass = "none"]

\* Drop for ComputePass
ComputePass_drop(s, c) ==
    [SDL_EndGPUPass(s, c, "compute") EXCEPT !.cbs[c].pass = "none"]

RECURSIVE ReleaseBuffers(_, _)
ReleaseBuffers(s, seq) ==
    IF seq = <<>> THEN s
    ELSE ReleaseBuffers(SDL_ReleaseGPUBuffer(s, Head(seq)[2].inner), Tail(seq))

RECURSIVE ReleaseComputePipelines(_, _)
ReleaseComputePipelines(s, seq) ==
    IF seq = <<>> THEN s
    ELSE ReleaseComputePipelines(SDL_ReleaseGPUComputePipeline(s, Head(seq)[2].inner),
                                 Tail(seq))

RECURSIVE ReleaseShaders(_, _)
ReleaseShaders(s, seq) ==
    IF seq = <<>> THEN s
    ELSE ReleaseShaders(SDL_ReleaseGPUShader(s, Head(seq)[2].inner), Tail(seq))

RECURSIVE ReleaseTextures(_, _)
ReleaseTextures(s, seq) ==
    IF seq = <<>> THEN s
    ELSE ReleaseTextures(SDL_ReleaseGPUTexture(s, Head(seq)[2].inner), Tail(seq))

\* A teardown that releases the tracked staging buffer and leaves the pending
\* ones.
drop_skips_pending(s) ==
    LET s1 == IF s.upload[1] # Null
              THEN SDL_ReleaseGPUTransferBuffer(s, s.upload[1])
              ELSE s
        s3 == ReleaseBuffers(s1, SlotIter(s1.buffers))
        s3a == ReleaseComputePipelines(s3, SlotIter(s3.compute_pipelines))
        s3b == ReleaseShaders(s3a, SlotIter(s3a.shaders))
        s4 == ReleaseTextures(s3b, SlotIter(s3b.textures))
        s5 == IF s4.window
              THEN Log(s4, "SDL_ReleaseWindowFromGPUDevice", Null, Null, "ok")
              ELSE s4
    IN [Log(s5, "SDL_DestroyGPUDevice", Null, Null, "ok") EXCEPT !.dropped = TRUE]

\* Drop for Device: the staging buffers, then each registry's occupied slots
\* through for_each (graphics pipelines and samplers hold nothing here).
Device_drop(s) ==
    LET s1 == IF s.upload[1] # Null
              THEN SDL_ReleaseGPUTransferBuffer(s, s.upload[1])
              ELSE s
        s2 == ReleaseEach(s1, s1.pending)
        s3 == ReleaseBuffers(s2, SlotIter(s2.buffers))
        s3a == ReleaseComputePipelines(s3, SlotIter(s3.compute_pipelines))
        s3b == ReleaseShaders(s3a, SlotIter(s3a.shaders))
        s4 == ReleaseTextures(s3b, SlotIter(s3b.textures))
        s5 == IF s4.window
              THEN Log(s4, "SDL_ReleaseWindowFromGPUDevice", Null, Null, "ok")
              ELSE s4
    IN [Log(s5, "SDL_DestroyGPUDevice", Null, Null, "ok") EXCEPT !.dropped = TRUE]

\* ----------------------------------------------------------------- actions
\* Device::new
Device_new ==
    /\ swapchain = NoSwapchain
    /\ upload_transfer_buffer = <<Null, 0>>
    /\ cmd_buf_count = 0
    /\ pending_transfer_buffers = <<>>
    /\ cmd_bufs = [c \in CmdIds |-> DeadCommandBuffer]
    /\ gpu_cmd = [c \in CmdIds |-> IdleCmd]
    /\ gpu_tb = [t \in TbIds |-> FALSE]
    /\ dropped = FALSE
    /\ shaders = EmptySlotMap
    /\ compute_pipelines = EmptySlotMap
    /\ gpu_shader = [x \in ShaderIds |-> FALSE]
    /\ gpu_pipeline = [x \in PipelineIds |-> FALSE]
    /\ cell = [inner |-> EmptySlotMap, borrow |-> 0]
    /\ frames = <<>>
    /\ data = <<>>
    /\ peak = 0
    /\ calls = <<>>
    /\ ret = "Ok"
    /\ fault = "none"

\* A Device constructed with or without a window, its registries empty.
Init ==
    /\ window \in BOOLEAN
    /\ textures = EmptySlotMap
    /\ buffers = EmptySlotMap
    /\ gpu_buf = [b \in BufIds |-> FALSE]
    /\ gpu_tex = [x \in TexIds |-> FALSE]
    /\ issued = NoneIssued
    /\ Device_new

\* A windowed Device on which one buffer of StagedBufferSize bytes and one
\* texture have been created.
InitStaging ==
    /\ window = TRUE
    /\ textures = SlotInsert(EmptySlotMap, TextureSlot(1, <<1, 1>>)).map
    /\ buffers = SlotInsert(EmptySlotMap, BufferSlot(1, StagedBufferSize)).map
    /\ gpu_buf = [b \in BufIds |-> b = 1]
    /\ gpu_tex = [x \in TexIds |-> x = 1]
    /\ issued = [held |-> {<<0, BufferSlot(1, StagedBufferSize)>>}, freed |-> <<>>]
    /\ Device_new

\* The same Device, its buffer of any of the declared sizes.
InitRange ==
    /\ window = TRUE
    /\ textures = SlotInsert(EmptySlotMap, TextureSlot(1, <<1, 1>>)).map
    /\ \E size \in BufferSizes \cup {StagedBufferSize} :
           /\ buffers = SlotInsert(EmptySlotMap, BufferSlot(1, size)).map
           /\ issued = [held |-> {<<0, BufferSlot(1, size)>>}, freed |-> <<>>]
    /\ gpu_buf = [b \in BufIds |-> b = 1]
    /\ gpu_tex = [x \in TexIds |-> x = 1]
    /\ Device_new

\* The Device of InitStaging after one acquire_command_buffer.
InitCopy ==
    /\ window = TRUE
    /\ textures = SlotInsert(EmptySlotMap, TextureSlot(1, <<1, 1>>)).map
    /\ buffers = SlotInsert(EmptySlotMap, BufferSlot(1, StagedBufferSize)).map
    /\ gpu_buf = [b \in BufIds |-> b = 1]
    /\ gpu_tex = [x \in TexIds |-> x = 1]
    /\ issued = [held |-> {<<0, BufferSlot(1, StagedBufferSize)>>}, freed |-> <<>>]
    /\ swapchain = NoSwapchain
    /\ upload_transfer_buffer = <<Null, 0>>
    /\ cmd_buf_count = 1
    /\ pending_transfer_buffers = <<>>
    /\ cmd_bufs = [c \in CmdIds |-> IF c = 1 THEN [DeadCommandBuffer EXCEPT !.alive = TRUE]
                                    ELSE DeadCommandBuffer]
    /\ gpu_cmd = [c \in CmdIds |-> IF c = 1 THEN [IdleCmd EXCEPT !.recording = TRUE]
                                   ELSE IdleCmd]
    /\ gpu_tb = [t \in TbIds |-> FALSE]
    /\ dropped = FALSE
    /\ shaders = EmptySlotMap
    /\ compute_pipelines = EmptySlotMap
    /\ gpu_shader = [x \in ShaderIds |-> FALSE]
    /\ gpu_pipeline = [x \in PipelineIds |-> FALSE]
    /\ cell = [inner |-> EmptySlotMap, borrow |-> 0]
    /\ frames = <<>>
    /\ data = <<>>
    /\ peak = 0
    /\ calls = <<>>
    /\ ret = "Ok"
    /\ fault = "none"

\* A panic ends the process; a dropped Device takes no more calls.
Running == fault = "none" /\ ~dropped

Do(r) == Commit(r.s, r.ret)

\* What a native creation / acquisition call can return: null, or an object
\* that is not live.
FreshCmd == {Null} \cup {c \in CmdIds : ~gpu_cmd[c].recording}
FreshTb == {Null} \cup {t \in TbIds : ~gpu_tb[t]}
FreshBuf == {Null} \cup {b \in BufIds : ~gpu_buf[b]}
FreshTex == {Null} \cup {x \in TexIds : ~gpu_tex[x]}
FreshShader == {Null} \cup {x \in ShaderIds : ~gpu_shader[x]}
FreshPipeline == {Null} \cup {x \in PipelineIds : ~gpu_pipeline[x]}

\* The native creation call of an upload of `size` bytes is made only when the
\* staging buffer has to grow.
GrowthResults(size) ==
    IF upload_transfer_buffer[1] # Null /\ upload_transfer_buffer[2] >= size
    THEN {Null} ELSE FreshTb

MapOutcomes == {"ok", "null_crash", "null_unnoticed"}
TmpOutcomes == {"ok", "acquire", "begin", "submit"}

\* What the native layer answers to an upload of `size` bytes: the result of
\* the staging buffer creation, of the map call, and the first failing call of
\* the upload's own submission.  An answer is drawn only for a call the code
\* gets to make; maps and tmps are the answers a run lets the map call and the
\* upload's own submission give.
UploadEnvs(pass, size, maps, tmps) ==
    {e \in [raw : GrowthResults(size), map : maps, tmp : tmps] :
        /\ (e.raw = Null /\ GrowthResults(size) # {Null}) => (e.map = "ok" /\ e.tmp = "ok")
        /\ e.map = "null_crash" => e.tmp = "ok"
        /\ pass # Null => e.tmp = "ok"}

\* The copy passes that can be handed to an upload: None, or a live CopyPass.
CopyPasses == {Null} \cup {c \in CmdIds : cmd_bufs[c].alive /\ cmd_bufs[c].pass = "copy"}

\* The handles a caller can pass: any i32, of which one below the backing
\* sequence, those within it and one beyond it are kept.
BufferHandles == -1..Len(buffers.slots)
TextureHandles == -1..Len(textures.slots)
ShaderHandles == -1..Len(shaders.slots)
ComputePipelineHandles == -1..Len(compute_pipelines.slots)

\* The entry-point names a caller can pass: byte strings, the terminator byte
\* among their bytes.
Bytes == {NUL, 1}
Names == UNION {[1..n -> Bytes] : n \in 0..MaxName}

CreateBuffer ==
    /\ Running
    /\ \E size \in BufferSizes, raw \in FreshBuf :
        Do(create_buffer(Cur, size, raw))

DestroyBuffer ==
    /\ Running
    /\ \E handle \in BufferHandles :
        Do(destroy_buffer(Cur, handle))

CreateTexture ==
    /\ Running
    /\ \E res \in TextureSizes, raw \in FreshTex :
        Do(create_texture(Cur, res, raw))

DestroyTexture ==
    /\ Running
    /\ \E handle \in TextureHandles :
        Do(destroy_texture(Cur, handle))

\* A registry access through SlotMapRefCell::with.
BufferRaw ==
    /\ Running
    /\ \E handle \in BufferHandles :
        LET r == buffer_raw(Cur, handle)
        IN Commit(IF r.panic # "none" THEN Panic(Cur, r.panic) ELSE Cur, "Ok")

TextureRaw ==
    /\ Running
    /\ \E handle \in TextureHandles :
        LET r == texture_raw(Cur, handle)
        IN Commit(IF r.panic # "none" THEN Panic(Cur, r.panic) ELSE Cur, "Ok")

CreateShader ==
    /\ Running
    /\ \E entrypoint \in Names, raw \in FreshShader :
        Do(create_shader(Cur, entrypoint, raw))

DestroyShader ==
    /\ Running
    /\ \E handle \in ShaderHandles :
        Do(destroy_shader(Cur, handle))

CreateComputePipeline ==
    /\ Running
    /\ \E entrypoint \in Names, raw \in FreshPipeline :
        Do(create_compute_pipeline(Cur, entrypoint, raw))

DestroyComputePipeline ==
    /\ Running
    /\ \E handle \in ComputePipelineHandles :
        Do(destroy_compute_pipeline(Cur, handle))

\* texture_raw and texture_res of a registry handle or of the sentinel, as the
\* render pass and blit code resolve their targets.
ResolveTexture ==
    /\ Running
    /\ \E handle \in TextureHandles \cup {SWAPCHAIN} :
        LET raw == texture_raw(Cur, handle)
            res == texture_res(Cur, handle)
        IN \/ Commit(IF raw.panic # "none" THEN Panic(Cur, raw.panic) ELSE Cur, "Ok")
           \/ Commit(IF res.panic # "none" THEN Panic(Cur, res.panic) ELSE Cur, "Ok")

\* The calls on the SlotMapRefCell, from the top level or from inside the
\* closure in progress.
CellValues == 1..2
CellHandles == -1..Len(cell.inner.slots)

CellInsert ==
    /\ Running
    /\ Len(cell.inner.slots) < MaxSlots \/ cell.inner.first_free # NoFree
    /\ \E value \in CellValues : Commit(Cell_insert(Cur, value), "Ok")

CellRemove ==
    /\ Running
    /\ \E index \in CellHandles : Commit(Cell_remove(Cur, index), "Ok")

CellWith ==
    /\ Running
    /\ Len(frames) < MaxDepth
    /\ \E index \in CellHandles : Commit(Cell_with(Cur, index), "Ok")

CellWithMut ==
    /\ Running
    /\ Len(frames) < MaxDepth
    /\ \E index \in CellHandles : Commit(Cell_with_mut(Cur, index), "Ok")

CellForEach ==
    /\ Running
    /\ Len(frames) < MaxDepth
    /\ Commit(Cell_for_each(Cur), "Ok")

ClosureReturn ==
    /\ Running
    /\ frames # <<>>
    /\ Commit(Closure_return(Cur), "Ok")

\* What the native layer answers to a download: the staging buffer it creates,
\* or null, and the first of the later calls that fails.
DownloadOutcomes == {"ok", "acquire", "begin", "fence", "wait", "map"}
DownloadEnvs ==
    {e \in [raw : FreshTb, env : DownloadOutcomes] : e.raw = Null => e.env = "ok"}

\* The offsets and sizes kept: the start of the buffer, one byte in and the
\* last word; the rest of the buffer, one byte, two, and the largest size.
DownloadOffsets == {0, 1, UMax}
DownloadSizes == {0, 1, 2, UMax}

DownloadFromBuffer ==
    /\ Running
    /\ \E buffer \in LiveHandles(buffers), offset \in DownloadOffsets,
          size \in DownloadSizes, build \in Builds, e \in DownloadEnvs :
        Do(download_from_buffer(Cur, buffer, offset, size, build, e.raw, e.env))

GetSwapchainTextureFormat ==
    /\ Running
    /\ Do(get_swapchain_texture_format(Cur))

\* The Device goes out of scope, or a panic unwinds through its owner; every
\* CommandBuffer borrows it, so none is alive.
DropDevice ==
    /\ ~dropped
    /\ \A c \in CmdIds : ~cmd_bufs[c].alive
    /\ Commit(Device_drop(Cur), "Ok")

AcquireCommandBuffer ==
    /\ Running
    /\ \E raw \in FreshCmd :
        Do(acquire_command_buffer(Cur, raw))

AcquireSwapchainTexture ==
    /\ Running
    /\ \E c \in CmdIds, ok \in BOOLEAN, tex \in {Null} \cup SwapTex, dims \in SwapDims :
        /\ Unborrowed(Cur, c)
        /\ Do(acquire_swapchain_texture(Cur, c, ok, tex, dims))

BeginCopyPass ==
    /\ Running
    /\ \E c \in CmdIds, ok \in BOOLEAN :
        /\ Unborrowed(Cur, c)
        /\ Do(begin_copy_pass(Cur, c, ok))

BeginRenderPass ==
    /\ Running
    /\ \E c \in CmdIds, ok \in BOOLEAN, texs \in {<<>>, <<SWAPCHAIN>>} :
        /\ Unborrowed(Cur, c)
        /\ Do(begin_render_pass(Cur, c, texs, ok))

BeginComputePass ==
    /\ Running
    /\ \E c \in CmdIds, ok \in BOOLEAN, texs \in {<<>>, <<SWAPCHAIN>>} :
        /\ Unborrowed(Cur, c)
        /\ Do(begin_compute_pass(Cur, c, texs, <<>>, ok))

\* A pass object goes out of scope.
EndCopyPass ==
    /\ Running
    /\ \E c \in CmdIds :
        /\ cmd_bufs[c].alive /\ cmd_bufs[c].pass = "copy"
        /\ Commit(CopyPass_drop(Cur, c), "Ok")

EndRenderPass ==
    /\ Running
    /\ \E c \in CmdIds :
        /\ cmd_bufs[c].alive /\ cmd_bufs[c].pass = "render"
        /\ Commit(RenderPass_drop(Cur, c), "Ok")

EndComputePass ==
    /\ Running
    /\ \E c \in CmdIds :
        /\ cmd_bufs[c].alive /\ cmd_bufs[c].pass = "compute"
        /\ Commit(ComputePass_drop(Cur, c), "Ok")

UploadToBuffer(maps, tmps) ==
    /\ Running
    /\ \E pass \in CopyPasses, buffer \in LiveHandles(buffers), offset \in {0, UMax},
          size \in 0..MaxLen :
        \E e \in UploadEnvs(pass, size, maps, tmps) :
            Do(upload_to_buffer(Cur, pass, buffer, offset, size, e.raw, e.map, e.tmp))

UploadToTexture(maps, tmps) ==
    /\ Running
    /\ \E pass \in CopyPasses, texture \in LiveHandles(textures), size \in 0..MaxLen :
        \E e \in UploadEnvs(pass, size, maps, tmps) :
            Do(upload_to_texture(Cur, pass, texture, size, e.raw, e.map, e.tmp))

Submit ==
    /\ Running
    /\ \E c \in CmdIds, ok \in BOOLEAN :
        /\ Unborrowed(Cur, c)
        /\ Do(submit(Cur, c, ok))

\* A CommandBuffer goes out of scope without submit.
DropCommandBuffer ==
    /\ Running
    /\ \E c \in CmdIds :
        /\ Unborrowed(Cur, c)
        /\ Commit(CommandBuffer_drop(Cur, c), "Ok")

\* Command buffers and the upload staging buffer: acquire, uploads that submit
\* themselves, submit and drop.  The staging buffer creation of an upload may
\* fail; its map call and the submission of its own command buffer, which
\* touch no Device field, succeed.
NextStaging ==
    \/ AcquireCommandBuffer
    \/ UploadToBuffer({"ok"}, {"ok"})
    \/ UploadToTexture({"ok"}, {"ok"})
    \/ Submit
    \/ DropCommandBuffer

SpecStaging == InitStaging /\ [][NextStaging]_vars

\* The same runs up to the teardown of the Device.
NextTeardown ==
    \/ AcquireCommandBuffer
    \/ UploadToBuffer({"ok"}, {"ok"})
    \/ Submit
    \/ DropCommandBuffer
    \/ DropDevice

SpecTeardown == InitStaging /\ [][NextTeardown]_vars

\* The operations that submit for themselves, any native call of which may
\* fail, while a command buffer of the application is in flight and acquires
\* the swapchain texture.  No copy pass is opened, so every upload is without
\* one.
NextSelf ==
    \/ AcquireSwapchainTexture
    \/ UploadToBuffer(MapOutcomes, TmpOutcomes)
    \/ UploadToTexture(MapOutcomes, TmpOutcomes)
    \/ DownloadFromBuffer

SpecSelf == InitCopy /\ [][NextSelf]_vars

\* The same runs on a buffer of any declared size.
SpecRange == InitRange /\ [][NextStaging]_vars

\* The same with the swapchain texture.
NextSubmit ==
    \/ AcquireCommandBuffer
    \/ AcquireSwapchainTexture
    \/ UploadToBuffer({"ok"}, {"ok"})
    \/ Submit
    \/ DropCommandBuffer

SpecSubmit == InitStaging /\ [][NextSubmit]_vars

\* The same with copy passes, which uploads can record into.
NextHazard ==
    \/ AcquireCommandBuffer
    \/ BeginCopyPass
    \/ EndCopyPass
    \/ UploadToBuffer({"ok"}, {"ok"})
    \/ UploadToTexture({"ok"}, {"ok"})
    \/ Submit
    \/ DropCommandBuffer

SpecHazard == InitStaging /\ [][NextHazard]_vars

\* Uploads into the caller's copy pass or through a command buffer of their
\* own, any native call of which may fail.
NextCopy ==
    \/ BeginCopyPass
    \/ EndCopyPass
    \/ UploadToBuffer({"ok"}, TmpOutcomes)
    \/ UploadToTexture({"ok"}, TmpOutcomes)

SpecCopy == InitCopy /\ [][NextCopy]_vars

\* Downloads from a buffer of any declared size, with command buffers of the
\* application in flight.
NextDownload ==
    \/ AcquireCommandBuffer
    \/ DownloadFromBuffer
    \/ DropCommandBuffer

SpecDownload == InitRange /\ [][NextDownload]_vars

\* The buffer registry over the life of a Device.
NextBuffers ==
    \/ CreateBuffer
    \/ DestroyBuffer
    \/ BufferRaw
    \/ DropDevice

SpecBuffers == Init /\ [][NextBuffers]_vars

\* The texture registry over the life of a Device.
NextTextures ==
    \/ CreateTexture
    \/ DestroyTexture
    \/ TextureRaw
    \/ DropDevice

SpecTextures == Init /\ [][NextTextures]_vars

\* The shader and compute pipeline registries.
NextShaders ==
    \/ CreateShader
    \/ DestroyShader
    \/ CreateComputePipeline
    \/ DestroyComputePipeline
    \/ DropDevice

SpecShaders == Init /\ [][NextShaders]_vars

\* The swapchain state: written by acquire_swapchain_texture, cleared by every
\* finish, read through the sentinel handle.
NextSwapchain ==
    \/ AcquireCommandBuffer
    \/ AcquireSwapchainTexture
    \/ ResolveTexture
    \/ Submit
    \/ DropCommandBuffer

SpecSwapchain == InitStaging /\ [][NextSwapchain]_vars

\* A SlotMapRefCell and the closures handed to it.
NextCell ==
    \/ CellInsert
    \/ CellRemove
    \/ CellWith
    \/ CellWithMut
    \/ CellForEach
    \/ ClosureReturn

SpecCell == Init /\ [][NextCell]_vars

\* The operations that need the window, on a Device with or without one.
NextWindow ==
    \/ AcquireCommandBuffer
    \/ AcquireSwapchainTexture
    \/ GetSwapchainTextureFormat
    \/ DropCommandBuffer

SpecWindow == Init /\ [][NextWindow]_vars

\* Command buffers, the swapchain texture and the three kinds of pass.
NextFrame ==
    \/ AcquireCommandBuffer
    \/ AcquireSwapchainTexture
    \/ BeginCopyPass
    \/ BeginRenderPass
    \/ BeginComputePass
    \/ EndCopyPass
    \/ EndRenderPass
    \/ EndComputePass
    \/ Submit
    \/ DropCommandBuffer

SpecFrame == Init /\ [][NextFrame]_vars

\* -------------------------------------------------------------- properties
\* Command buffer c finishes in this step: it is submitted or dropped.
Finishes(c) == cmd_bufs[c].alive /\ ~cmd_bufs'[c].alive
SomeFinish == \E c \in CmdIds : Finishes(c)

IsPrefix(a, b) == Len(a) <= Len(b) /\ SubSeq(b, 1, Len(a)) = a
Range(seq) == {seq[i] : i \in DOMAIN seq}

\* How many calls of log are calls of fn on command buffer c / on object o.
CmdCalls(log, fn, c) == Cardinality({i \in DOMAIN log : log[i].fn = fn /\ log[i].cmd = c})
ObjCalls(log, fn, o) == Cardinality({i \in DOMAIN log : log[i].fn = fn /\ log[i].obj = o})
Releases(log) == Cardinality({i \in DOMAIN log : log[i].fn = "SDL_ReleaseGPUTransferBuffer"})
BeginCalls(log, c) ==
    Cardinality({i \in DOMAIN log : log[i].cmd = c /\ log[i].fn \in {BeginFn(k) : k \in PassKinds}})

\* C1: an entry leaves the pending-release list only in a step in which a
\* command buffer finishes (submit or cancel-on-drop) and takes the in-flight
\* counter from 1 to 0, and that step empties the list; a finish that leaves
\* the counter above 0 leaves the list as it was.
C1_DrainOnlyAtZero ==
    [][/\ ~IsPrefix(pending_transfer_buffers, pending_transfer_buffers') =>
            /\ SomeFinish
            /\ cmd_buf_count = 1 /\ cmd_buf_count' = 0
            /\ pending_transfer_buffers' = <<>>
       /\ (SomeFinish /\ cmd_buf_count' > 0) =>
            pending_transfer_buffers' = pending_transfer_buffers]_vars

\* Two command buffers were acquired, the staging buffer grew, and the first
\* has just been submitted: the counter is 1 and the list is not empty.
C1_FirstSubmitKeepsPending ==
    /\ cmd_buf_count = 1
    /\ pending_transfer_buffers # <<>>
    /\ \E c \in CmdIds : CmdCalls(calls, "SDL_SubmitGPUCommandBuffer", c) = 1

\* C2: a submit or cancel-on-drop that takes the in-flight counter to zero
\* empties the pending-release list in that step, and its native calls hold
\* exactly one release, of a live object, for each entry that was on the list
\* and none for any other transfer buffer.
C2_DrainComplete ==
    [][(SomeFinish /\ cmd_buf_count' = 0) =>
           /\ pending_transfer_buffers' = <<>>
           /\ Releases(calls') = Len(pending_transfer_buffers)
           /\ \A t \in TbIds :
                  /\ ObjCalls(calls', "SDL_ReleaseGPUTransferBuffer", t) =
                         (IF t \in Range(pending_transfer_buffers) THEN 1 ELSE 0)
                  /\ t \in Range(pending_transfer_buffers) => ~gpu_tb'[t]
           /\ \A i \in DOMAIN calls' :
                  calls'[i].fn = "SDL_ReleaseGPUTransferBuffer" => calls'[i].chk # "not_live"]_vars

\* A drop has just cancelled the last command buffer and released two entries.
C2_TwoEntriesDrainedOnCancel ==
    /\ cmd_buf_count = 0
    /\ pending_transfer_buffers = <<>>
    /\ Releases(calls) = 2
    /\ \E c \in CmdIds : CmdCalls(calls, "SDL_CancelGPUCommandBuffer", c) = 1

\* C3: no native release of a transfer buffer is issued while a command buffer
\* that recorded a copy reading it is still recording, that is, has not been
\* handed to the native submit or cancel call.
C3_NoReleaseWhileRecorded ==
    \A i \in DOMAIN calls :
        calls[i].fn = "SDL_ReleaseGPUTransferBuffer" => calls[i].chk # "in_use"

\* C4: between operations the in-flight counter is the number of
\* CommandBuffer values that were acquired and neither submitted nor dropped;
\* it is never negative and never wraps.
C4_CounterIsLiveCommandBuffers ==
    /\ cmd_buf_count = Cardinality({c \in CmdIds : cmd_bufs[c].alive})
    /\ cmd_buf_count >= 0
    /\ cmd_buf_count <= MaxCmdBufs

\* Every command buffer is acquired, and an upload has just submitted a command
\* buffer of its own.
C4_AllAcquiredAfterUpload ==
    /\ cmd_buf_count = MaxCmdBufs
    /\ CmdCalls(calls, "SDL_SubmitGPUCommandBuffer", TmpCmd) = 1

\* C5: the in-flight counter goes down only in a step that finishes a command
\* buffer, one command buffer finishes per step, and that step takes the
\* counter down by exactly one: a drop without submit issues the native cancel
\* once and no submit; a submit issues the native submit once and no cancel.
C5_DecrementOnce ==
    [][/\ cmd_buf_count' < cmd_buf_count => SomeFinish
       /\ \A c \in CmdIds : Finishes(c) =>
            /\ cmd_buf_count' = cmd_buf_count - 1
            /\ \A d \in CmdIds : Finishes(d) => d = c
            /\ CmdCalls(calls', "SDL_SubmitGPUCommandBuffer", c)
                   + CmdCalls(calls', "SDL_CancelGPUCommandBuffer", c) = 1]_vars

\* The only command buffer has just been submitted: one native submit, no
\* cancel, the counter back at zero.
C5_SubmittedNotCancelled ==
    /\ cmd_buf_count = 0
    /\ ret = "Ok"
    /\ \E c \in CmdIds :
           /\ CmdCalls(calls, "SDL_SubmitGPUCommandBuffer", c) = 1
           /\ CmdCalls(calls, "SDL_CancelGPUCommandBuffer", c) = 0

\* C6: a submit whose native call reports failure returns the
\* NativeCallFailed error and still finishes the command buffer: the counter
\* is one lower, the pending-release list is drained if the counter reached
\* zero, the swapchain state is empty, the native submit was issued once and
\* no native cancel was issued for that buffer.
C6_FailedSubmitStillFinishes ==
    [][\A c \in CmdIds :
           (Finishes(c) /\ ret' = "SDL_SubmitGPUCommandBuffer failed") =>
               /\ cmd_buf_count' = cmd_buf_count - 1
               /\ cmd_buf_count' = 0 =>
                      /\ pending_transfer_buffers' = <<>>
                      /\ Releases(calls') = Len(pending_transfer_buffers)
               /\ swapchain' = NoSwapchain
               /\ CmdCalls(calls', "SDL_SubmitGPUCommandBuffer", c) = 1
               /\ CmdCalls(calls', "SDL_CancelGPUCommandBuffer", c) = 0]_vars

\* A submit has just failed on the last command buffer while a staging buffer
\* was awaiting release: it was released and the counter is zero.
C6_FailedSubmitDrained ==
    /\ ret = "SDL_SubmitGPUCommandBuffer failed"
    /\ cmd_buf_count = 0
    /\ swapchain = NoSwapchain
    /\ Releases(calls) >= 1
    /\ \E c \in CmdIds : CmdCalls(calls, "SDL_SubmitGPUCommandBuffer", c) = 1

\* C7: after any step that finishes a command buffer (submit, successful or
\* not, or drop) the swapchain state is (null, 0, 0).
C7_SwapchainEmptyAfterFinish ==
    [][SomeFinish => swapchain' = NoSwapchain]_vars

\* A command buffer has just been submitted or cancelled while another one,
\* still alive, had recorded a swapchain texture: the state is empty.
C7_ClearedByAnotherFinish ==
    /\ swapchain = NoSwapchain
    /\ \E i \in DOMAIN calls :
           calls[i].fn \in {"SDL_SubmitGPUCommandBuffer", "SDL_CancelGPUCommandBuffer"}
    /\ \E c \in CmdIds : cmd_bufs[c].alive /\ cmd_bufs[c].sw # NoSwapchain

\* C8: while a command buffer that recorded a swapchain texture is alive, the
\* swapchain state is the one it recorded: no operation on another command
\* buffer clears or overwrites it.
C8_SwapchainHeldUntilFinish ==
    \A c \in CmdIds :
        (cmd_bufs[c].alive /\ cmd_bufs[c].sw # NoSwapchain) => swapchain = cmd_bufs[c].sw

\* C9: no command buffer ever has more than one pass open, and while a pass
\* is open on a command buffer no step issues a native begin call on it.
C9_OneOpenPass ==
    [][\A c \in CmdIds :
           /\ Len(gpu_cmd'[c].open) <= 1
           /\ cmd_bufs[c].pass # "none" => BeginCalls(calls', c) = 0]_vars

\* Two command buffers, each with its one pass open.
C9_EachWithOnePass ==
    \E c, d \in CmdIds :
        /\ cmd_bufs[c].pass = "render" /\ gpu_cmd[c].open = <<"render">>
        /\ cmd_bufs[d].pass = "copy" /\ gpu_cmd[d].open = <<"copy">>

\* C10: a pass open at the native layer is closed only by a step whose native
\* calls are the one matching end call of that pass, which finds it open; a
\* command buffer that finishes has no pass open, and no native submit or
\* cancel is ever issued on a command buffer with a pass still open.
C10_PassEndedOnceBeforeFinish ==
    [][/\ \A c \in CmdIds :
              /\ (gpu_cmd[c].open # <<>> /\ gpu_cmd'[c].open = <<>>) =>
                     /\ cmd_bufs'[c].alive
                     /\ calls' = <<[fn |-> EndFn(gpu_cmd[c].open[1]), cmd |-> c,
                                    obj |-> Null, chk |-> "ok"]>>
              /\ Finishes(c) => gpu_cmd[c].open = <<>>
       /\ \A i \in DOMAIN calls' :
              calls'[i].fn \in {"SDL_SubmitGPUCommandBuffer", "SDL_CancelGPUCommandBuffer"}
                  => calls'[i].chk = "ok"]_vars

\* A compute pass has just been ended on a command buffer that is still alive.
C10_ComputePassEnded ==
    \E c \in CmdIds :
        /\ cmd_bufs[c].alive /\ cmd_bufs[c].pass = "none"
        /\ gpu_cmd[c].recording /\ gpu_cmd[c].open = <<>>
        /\ calls = <<[fn |-> "SDL_EndGPUComputePass", cmd |-> c, obj |-> Null, chk |-> "ok"]>>

\* The handles the application holds.
HeldHandles == {p[1] : p \in issued.held}

\* C11: an insert returns the most recently removed handle that has not been
\* given out again, if there is one, and the length of the backing sequence
\* otherwise; the handle it returns is not one still held.
C11_InsertReusesLastFreed ==
    [][(ret' = "Ok" /\ \E i \in DOMAIN calls' : calls'[i].fn = "SDL_CreateGPUBuffer") =>
           \E p \in issued'.held :
               /\ issued'.held \ issued.held = {p}
               /\ p[1] \notin HeldHandles
               /\ p[1] = IF issued.freed # <<>>
                         THEN issued.freed[Len(issued.freed)]
                         ELSE Len(buffers.slots)]_vars

\* Handles 0, 1, 2 were given, 0 and then another were removed, and an insert
\* has just reused the later one: 0 is still free.
C11_ReusedLatestNotLowest ==
    /\ Len(buffers.slots) = 3
    /\ issued.freed = <<0>>
    /\ HeldHandles = {1, 2}
    /\ ret = "Ok"
    /\ \E i \in DOMAIN calls : calls[i].fn = "SDL_CreateGPUBuffer"

\* C12: iterating the registry yields exactly the <<handle, value>> pairs the
\* application holds (the occupied slots, each with the value last inserted
\* under its handle), in strictly ascending handle order, so each once.
C12_IterYieldsOccupied ==
    LET it == SlotIter(buffers)
    IN /\ {it[k] : k \in DOMAIN it} = issued.held
       /\ \A k \in 1..(Len(it) - 1) : it[k][1] < it[k + 1][1]
       /\ Len(it) = Cardinality(HeldHandles)

\* The Device was dropped with slot 1 free between two occupied slots: bulk
\* teardown released the buffer of slot 0, then the buffer of slot 2.
C12_TeardownSkipsFreeSlot ==
    /\ dropped
    /\ Len(buffers.slots) = 3
    /\ HeldHandles = {0, 2}
    /\ Len(calls) >= 2
    /\ calls[1].fn = "SDL_ReleaseGPUBuffer" /\ calls[1].obj = buffers.slots[1].val.inner
    /\ calls[2].fn = "SDL_ReleaseGPUBuffer" /\ calls[2].obj = buffers.slots[3].val.inner

\* C13: remove of a handle that is not held (its slot free, or the handle
\* below or beyond the backing sequence) faults, and destroy_buffer on it
\* panics without a native call; remove of a held handle returns its value.
C13_RemoveFaults ==
    \A h \in BufferHandles :
        IF h \in HeldHandles
        THEN /\ SlotRemove(buffers, h).panic = "none"
             /\ <<h, SlotRemove(buffers, h).val>> \in issued.held
        ELSE /\ SlotRemove(buffers, h).panic # "none"
             /\ destroy_buffer(Cur, h).s.fault # "none"
             /\ destroy_buffer(Cur, h).s.calls = <<>>

\* A handle was destroyed a second time with no insert in between.
C13_DoubleRemoveFaulted ==
    /\ fault = "slot already free"
    /\ issued.freed # <<>>
    /\ calls = <<>>

\* C14: an access (get / get_mut, through with / with_mut) to a handle that is
\* not held faults and yields no value; an access to a held handle yields the
\* value held under it.
C14_StaleAccessFaults ==
    \A h \in BufferHandles :
        IF h \in HeldHandles
        THEN /\ SlotGet(buffers, h).panic = "none"
             /\ <<h, SlotGet(buffers, h).val>> \in issued.held
        ELSE /\ SlotGet(buffers, h).panic # "none"
             /\ buffer_raw(Cur, h).panic # "none"
             /\ buffer_raw(Cur, h).val = Null

\* A removed handle has just been accessed.
C14_StaleAccessFaulted ==
    /\ fault = "slot is free"
    /\ issued.freed # <<>>

\* The declared size of the buffer held under handle b.
DeclaredSize(b) == buffers.slots[b + 1].val.size

C16_RangeCheckExact ==
    \A b \in LiveHandles(buffers), offset \in 0..UMax, size \in 0..UMax :
        (upload_to_buffer(Cur, Null, b, offset, size, Null, "ok", "ok").ret
             # "data exceeds buffer size")
            <=> (offset + size <= DeclaredSize(b))

\* The native staging buffer creations of a call log that returned an object.
Created(log) ==
    {i \in DOMAIN log : log[i].fn = "SDL_CreateGPUTransferBuffer" /\ log[i].obj # Null}

\* C17: a request of `size` bytes reuses the current staging buffer, changing
\* nothing and calling nothing, exactly when there is one and its capacity is
\* at least size; otherwise the current pointer, if any, is appended once to
\* the pending-release list, one native buffer is created and (new pointer,
\* size) is tracked.  So in every step a created staging buffer is the one
\* tracked afterwards, comes with one more pending entry exactly when there was
\* a buffer before, and that buffer was smaller.
C17_ReuseOrGrowOnce ==
    /\ [](\A size \in 0..UMax, raw \in FreshTb \ {Null} :
              LET e == ensure_upload_transfer_buffer(Cur, size, raw)
                  current == upload_transfer_buffer[1]
              IN IF current # Null /\ upload_transfer_buffer[2] >= size
                 THEN e = [s |-> Cur, val |-> current, err |-> "none"]
                 ELSE /\ e.val = raw /\ e.err = "none"
                      /\ e.s = [Cur EXCEPT
                                  !.pending = IF current # Null THEN Append(@, current) ELSE @,
                                  !.upload = <<raw, size>>,
                                  !.gtb[raw] = TRUE,
                                  !.calls = <<[fn |-> "SDL_CreateGPUTransferBuffer",
                                               cmd |-> Null, obj |-> raw, chk |-> "ok"]>>])
    /\ [][IF Created(calls') # {}
          THEN /\ Cardinality(Created(calls')) = 1
               /\ \A i \in Created(calls') : upload_transfer_buffer'[1] = calls'[i].obj
               /\ upload_transfer_buffer[1] # Null =>
                      /\ upload_transfer_buffer[2] < upload_transfer_buffer'[2]
                      /\ pending_transfer_buffers' =
                             Append(pending_transfer_buffers, upload_transfer_buffer[1])
               /\ upload_transfer_buffer[1] = Null =>
                      pending_transfer_buffers' = pending_transfer_buffers
          ELSE upload_transfer_buffer'[1] # Null =>
                   upload_transfer_buffer' = upload_transfer_buffer]_vars

\* The staging buffer has just grown to the largest upload, for the first time:
\* one superseded buffer awaits release.
C17_GrewOnce ==
    /\ Created(calls) # {}
    /\ upload_transfer_buffer[1] # Null
    /\ upload_transfer_buffer[2] = MaxLen
    /\ Len(pending_transfer_buffers) = 1
    /\ gpu_tb[pending_transfer_buffers[1]]

\* C18: over any sequence of uploads, a failing native staging buffer creation
\* included, the tracked capacity of the staging buffer never decreases.
C18_CapacityNeverDecreases ==
    [][upload_transfer_buffer'[2] >= upload_transfer_buffer[2]]_vars

\* The release calls of a call log for the native buffer b.
BufferReleases(log, b) ==
    {i \in DOMAIN log : log[i].fn = "SDL_ReleaseGPUBuffer" /\ log[i].obj = b}

\* C19: every native buffer created through create_buffer is released by
\* exactly one native release call, by destroy_buffer on its handle or by the
\* teardown of the Device.  While the Device lives, the live native buffers are
\* exactly those of the occupied slots, each in one slot; once it is dropped
\* none is live; no release is issued for an object that is not live; and each
\* step issues one release for each buffer it ends and none for any other.
C19_ReleasedExactlyOnce ==
    /\ [](/\ \A i \in DOMAIN calls :
                 calls[i].fn = "SDL_ReleaseGPUBuffer" => calls[i].chk = "ok"
          /\ dropped => \A b \in BufIds : ~gpu_buf[b]
          /\ ~dropped =>
                 LET owned == SlotIter(buffers)
                 IN /\ {b \in BufIds : gpu_buf[b]} = {owned[i][2].inner : i \in DOMAIN owned}
                    /\ \A i, j \in DOMAIN owned :
                           owned[i][2].inner = owned[j][2].inner => i = j)
    /\ [][\A b \in BufIds :
              Cardinality(BufferReleases(calls', b))
                  = IF gpu_buf[b] /\ ~gpu_buf'[b] THEN 1 ELSE 0]_vars

\* The teardown released the one buffer still registered; the other one had
\* been destroyed through its handle before.
C19_TeardownAfterDestroy ==
    /\ dropped
    /\ issued.freed # <<>>
    /\ Len(buffers.slots) = 2
    /\ \E b \in BufIds :
           {calls[i].obj : i \in {j \in DOMAIN calls : calls[j].fn = "SDL_ReleaseGPUBuffer"}} = {b}

\* C20: when the native creation returns null, create_buffer returns its
\* NativeCallFailed error and the registry is unchanged, slots and free list
\* alike; when it succeeds, exactly one slot becomes occupied, holding the
\* native pointer and the byte size, the handle returned resolves to it, and
\* every other handle resolves as before.
C20_CreateAllOrNothing ==
    /\ [](Running =>
            \A size \in BufferSizes, raw \in FreshBuf :
                LET r == create_buffer(Cur, size, raw)
                    slot == BufferSlot(raw, size)
                IN IF raw = Null
                   THEN /\ r.ret = "SDL_CreateGPUBuffer failed"
                        /\ r.s.buffers = buffers
                        /\ r.s.issued = issued
                   ELSE /\ r.ret = "Ok"
                        /\ \E h \in 0..Len(buffers.slots) :
                               /\ h \notin LiveHandles(buffers)
                               /\ r.s.issued.held = issued.held \cup {<<h, slot>>}
                               /\ LiveHandles(r.s.buffers) = LiveHandles(buffers) \cup {h}
                               /\ SlotGet(r.s.buffers, h).panic = "none"
                               /\ SlotGet(r.s.buffers, h).val = slot
                               /\ buffer_raw(r.s, h) = [val |-> raw, panic |-> "none"]
                        /\ \A g \in LiveHandles(buffers) :
                               SlotGet(r.s.buffers, g) = SlotGet(buffers, g))
    /\ [][ret' = "SDL_CreateGPUBuffer failed" =>
              /\ buffers' = buffers
              /\ issued' = issued
              /\ gpu_buf' = gpu_buf]_vars

\* A creation has just failed on a registry with an occupied slot and a free one.
C20_FailedWithFreeSlot ==
    /\ ret = "SDL_CreateGPUBuffer failed"
    /\ buffers.first_free # NoFree
    /\ LiveHandles(buffers) # {}
    /\ \E i \in DOMAIN calls : calls[i].fn = "SDL_CreateGPUBuffer" /\ calls[i].obj = Null

\* C21: create_shader and create_compute_pipeline given an entry-point name
\* with a terminator byte among its bytes return the InvalidArgument error
\* without any native call and with every registry, and everything else,
\* unchanged; a name without one is never refused that way.
C21_NulNameRefusedFirst ==
    /\ [](\A entrypoint \in Names :
              /\ \A raw \in FreshShader :
                     IF \E i \in DOMAIN entrypoint : entrypoint[i] = NUL
                     THEN create_shader(Cur, entrypoint, raw)
                              = Ret(Cur, "entrypoint contains interior nul byte")
                     ELSE create_shader(Cur, entrypoint, raw).ret
                              # "entrypoint contains interior nul byte"
              /\ \A raw \in FreshPipeline :
                     IF \E i \in DOMAIN entrypoint : entrypoint[i] = NUL
                     THEN create_compute_pipeline(Cur, entrypoint, raw)
                              = Ret(Cur, "entrypoint contains interior nul byte")
                     ELSE create_compute_pipeline(Cur, entrypoint, raw).ret
                              # "entrypoint contains interior nul byte")
    /\ [][ret' = "entrypoint contains interior nul byte" =>
              /\ calls' = <<>>
              /\ UNCHANGED <<textures, buffers, shaders, compute_pipelines,
                             gpu_buf, gpu_tex, gpu_shader, gpu_pipeline, fault>>]_vars

\* A name with an embedded terminator has just been refused by a Device that
\* holds a shader and whose compute pipeline registry has a free slot.
C21_RefusedOnPopulatedDevice ==
    /\ ret = "entrypoint contains interior nul byte"
    /\ calls = <<>>
    /\ LiveHandles(shaders) # {}
    /\ LiveHandles(compute_pipelines) = {}
    /\ compute_pipelines.first_free # NoFree

\* The swapchain acquisitions of a call log.
SwapchainAcquires(log) ==
    {i \in DOMAIN log : log[i].fn = "SDL_AcquireGPUSwapchainTexture"}

\* C22: texture_raw and texture_res of the swapchain sentinel return the
\* pointer and the (width, height) of the swapchain state when its pointer is
\* not null, and fault when it is, whatever the texture registry holds; the
\* state holds what the latest successful acquire_swapchain_texture reported
\* (empty when it reported no image), or is empty since a finish cleared it.
C22_SentinelReadsSwapchainState ==
    /\ [](LET raw == texture_raw(Cur, SWAPCHAIN)
              res == texture_res(Cur, SWAPCHAIN)
              bare == [Cur EXCEPT !.textures = EmptySlotMap]
          IN /\ IF swapchain[1] = Null
                THEN /\ raw.panic = "no swapchain texture acquired"
                     /\ res.panic = "no swapchain texture acquired"
                ELSE /\ raw = [val |-> swapchain[1], panic |-> "none"]
                     /\ res = [val |-> <<swapchain[2], swapchain[3]>>, panic |-> "none"]
             /\ texture_raw(bare, SWAPCHAIN) = raw
             /\ texture_res(bare, SWAPCHAIN) = res)
    /\ [][/\ ret' = "Ok(Some(SWAPCHAIN))" =>
                 /\ swapchain'[1] # Null
                 /\ \A i \in SwapchainAcquires(calls') : calls'[i].obj = swapchain'[1]
          /\ ret' = "Ok(None)" => swapchain'[1] = Null
          /\ swapchain' # swapchain =>
                 \/ ret' \in {"Ok(Some(SWAPCHAIN))", "Ok(None)"}
                 \/ SomeFinish /\ swapchain' = NoSwapchain]_vars

\* The sentinel was resolved after the finish of another command buffer had
\* cleared the state recorded by a command buffer still alive: a fault.
C22_FaultAfterFinishCleared ==
    /\ fault = "no swapchain texture acquired"
    /\ swapchain = NoSwapchain
    /\ \E c \in CmdIds : cmd_bufs[c].alive /\ cmd_bufs[c].sw # NoSwapchain

\* The fault of a call made on the SlotMapRefCell, "none" when it returns.
FaultOf(s) == s.fault

\* C23: from inside a with, with_mut or for_each closure of a SlotMapRefCell,
\* insert, remove and with_mut on it fault and leave it as it was; from inside
\* with_mut, with and for_each fault too; from inside with or for_each, with
\* of an occupied slot and for_each run.  No step taken while a closure is in
\* progress changes the SlotMap.
C23_SingleWriterOrReaders ==
    /\ [](frames # <<>> =>
            LET inner == frames[Len(frames)].kind
                BorrowMutFaults(s) ==
                    s = Panic(Cur, "already borrowed: BorrowMutError")
                BorrowFaults(s) ==
                    s = Panic(Cur, "already mutably borrowed: BorrowError")
            IN /\ \A value \in CellValues : BorrowMutFaults(Cell_insert(Cur, value))
               /\ \A index \in CellHandles :
                      /\ BorrowMutFaults(Cell_remove(Cur, index))
                      /\ BorrowMutFaults(Cell_with_mut(Cur, index))
               /\ inner = "with_mut" =>
                      /\ \A index \in CellHandles : BorrowFaults(Cell_with(Cur, index))
                      /\ BorrowFaults(Cell_for_each(Cur))
               /\ inner # "with_mut" =>
                      /\ \A index \in LiveHandles(cell.inner) :
                             /\ FaultOf(Cell_with(Cur, index)) = "none"
                             /\ Cell_with(Cur, index).cell.inner = cell.inner
                      /\ FaultOf(Cell_for_each(Cur)) = "none"
                      /\ Cell_for_each(Cur).cell.inner = cell.inner)
    /\ [][frames # <<>> => cell'.inner = cell.inner]_vars

\* A remove attempted from inside a with closure that itself runs inside a
\* for_each closure has faulted.
C23_RemoveInsideNestedReads ==
    /\ fault = "already borrowed: BorrowMutError"
    /\ Len(frames) = 2
    /\ frames[1].kind = "for_each"
    /\ frames[2].kind = "with"
    /\ cell.borrow = 2

\* The command buffer calls of a call log, as <<function, command buffer>>.
CmdFns ==
    {"SDL_AcquireGPUCommandBuffer", "SDL_BeginGPUCopyPass", "SDL_UploadToGPUBuffer",
     "SDL_UploadToGPUTexture", "SDL_EndGPUCopyPass", "SDL_SubmitGPUCommandBuffer",
     "SDL_CancelGPUCommandBuffer"}
OnCmd(log) ==
    LET IsCmdCall(e) == e.fn \in CmdFns
        kept == SelectSeq(log, IsCmdCall)
    IN [i \in 1..Len(kept) |-> <<kept[i].fn, kept[i].cmd>>]

\* What an upload recording through `copy` has to issue on command buffers.
Expected(copy, pass, tmp, failed) ==
    IF failed THEN <<>>
    ELSE IF pass # Null THEN <<<<copy, pass>>>>
    ELSE IF tmp = "acquire" THEN <<<<"SDL_AcquireGPUCommandBuffer", Null>>>>
    ELSE IF tmp = "begin"
    THEN <<<<"SDL_AcquireGPUCommandBuffer", TmpCmd>>, <<"SDL_BeginGPUCopyPass", TmpCmd>>,
           <<"SDL_CancelGPUCommandBuffer", TmpCmd>>>>
    ELSE <<<<"SDL_AcquireGPUCommandBuffer", TmpCmd>>, <<"SDL_BeginGPUCopyPass", TmpCmd>>,
           <<copy, TmpCmd>>, <<"SDL_EndGPUCopyPass", TmpCmd>>,
           <<"SDL_SubmitGPUCommandBuffer", TmpCmd>>>>

\* C24: an upload handed an open copy pass records one copy into it and
\* issues no other call on any command buffer; an upload handed none issues,
\* in this order, acquire, begin copy pass, its copy, end copy pass and
\* submit on a command buffer of its own, or stops at the first of these that
\* fails, cancelling the command buffer when the pass could not be begun.  In
\* every step a command buffer an upload acquired is submitted or cancelled
\* once, and no upload changes the CommandBuffers of the application or the
\* in-flight counter.
C24_RecordOrSubmitInOrder ==
    /\ [](\A pass \in CopyPasses, size \in 0..StagedBufferSize :
              \A e \in UploadEnvs(pass, size, {"ok"}, TmpOutcomes) :
                  LET reuse == /\ upload_transfer_buffer[1] # Null
                               /\ upload_transfer_buffer[2] >= size
                      failed == e.raw = Null /\ ~reuse
                      b == upload_to_buffer(Cur, pass, 0, 0, size, e.raw, "ok", e.tmp)
                      x == upload_to_texture(Cur, pass, 0, size, e.raw, "ok", e.tmp)
                  IN /\ OnCmd(b.s.calls) = Expected("SDL_UploadToGPUBuffer", pass, e.tmp, failed)
                     /\ OnCmd(x.s.calls) = Expected("SDL_UploadToGPUTexture", pass, e.tmp, failed)
                     /\ (b.ret = "Ok") <=> (~failed /\ e.tmp = "ok")
                     /\ (x.ret = "Ok") <=> (~failed /\ e.tmp = "ok"))
    /\ [][/\ CmdCalls(calls', "SDL_SubmitGPUCommandBuffer", TmpCmd)
                 + CmdCalls(calls', "SDL_CancelGPUCommandBuffer", TmpCmd)
               = CmdCalls(calls', "SDL_AcquireGPUCommandBuffer", TmpCmd)
          /\ CmdCalls(calls', "SDL_AcquireGPUCommandBuffer", TmpCmd) <= 1
          /\ (\E i \in DOMAIN calls' :
                  calls'[i].fn \in {"SDL_UploadToGPUBuffer", "SDL_UploadToGPUTexture"}) =>
                 /\ cmd_bufs' = cmd_bufs
                 /\ cmd_buf_count' = cmd_buf_count]_vars

\* An upload handed no pass could not begin the copy pass of its own command
\* buffer and cancelled it, while a copy pass of the caller was open.
C24_OwnBufferCancelled ==
    /\ ret = "SDL_BeginGPUCopyPass failed"
    /\ CmdCalls(calls, "SDL_CancelGPUCommandBuffer", TmpCmd) = 1
    /\ \E c \in CmdIds : cmd_bufs[c].alive /\ cmd_bufs[c].pass = "copy"

\* C25: for every offset, size and declared size, a download whose range
\* (size 0 standing for the rest of the buffer from offset) does not lie
\* inside the buffer returns the OutOfRange error without a native call and
\* without a fault, whatever the build.
C25_DownloadRangeChecked ==
    \A b \in LiveHandles(buffers), offset \in 0..UMax, size \in 0..UMax, build \in Builds :
        LET declared == DeclaredSize(b)
            inside == IF size = 0 THEN offset <= declared ELSE offset + size <= declared
            r == download_from_buffer(Cur, b, offset, size, build, Null, "ok")
        IN ~inside => r = Ret(Cur, "requested range exceeds buffer size")

\* How many calls of log are calls of fn, and where they are.
FnCalls(log, fn) == Cardinality({i \in DOMAIN log : log[i].fn = fn})
FnAt(log, fn) == {i \in DOMAIN log : log[i].fn = fn}

\* C26: in every download the staging buffer created for it is released
\* exactly once and is the only one released, the fence acquired is released
\* exactly once, the command buffer acquired is submitted or cancelled exactly
\* once, the staging buffer is mapped only after a fence wait that reported
\* completion, and bytes are returned only then; the upload staging buffer,
\* the pending list, the in-flight counter and the CommandBuffers of the
\* application are left as they were.
C26_DownloadCleansUp ==
    [][FnCalls(calls', "SDL_CreateGPUTransferBuffer") > 0 =>
          LET log == calls'
              made == {log[i].obj : i \in FnAt(log, "SDL_CreateGPUTransferBuffer")} \ {Null}
              fences == {i \in FnAt(log, "SDL_SubmitGPUCommandBufferAndAcquireFence") :
                             log[i].obj # Null}
          IN /\ FnCalls(log, "SDL_CreateGPUTransferBuffer") = 1
             /\ \A t \in made : ObjCalls(log, "SDL_ReleaseGPUTransferBuffer", t) = 1
             /\ \A i \in FnAt(log, "SDL_ReleaseGPUTransferBuffer") :
                    log[i].obj \in made /\ log[i].chk = "ok"
             /\ FnCalls(log, "SDL_ReleaseGPUFence") = Cardinality(fences)
             /\ \A i \in FnAt(log, "SDL_ReleaseGPUFence") : \E j \in fences : j < i
             /\ CmdCalls(log, "SDL_AcquireGPUCommandBuffer", TmpCmd) <= 1
             /\ CmdCalls(log, "SDL_SubmitGPUCommandBufferAndAcquireFence", TmpCmd)
                    + CmdCalls(log, "SDL_CancelGPUCommandBuffer", TmpCmd)
                  = CmdCalls(log, "SDL_AcquireGPUCommandBuffer", TmpCmd)
             /\ \A i \in FnAt(log, "SDL_MapGPUTransferBuffer") :
                    /\ \E j \in FnAt(log, "SDL_WaitForGPUFences") : j < i
                    /\ ret' # "SDL_WaitForGPUFences failed"
             /\ data' # <<>> => ret' = "Ok(data)"
             /\ ret' = "Ok(data)" => FnCalls(log, "SDL_MapGPUTransferBuffer") = 1
             /\ UNCHANGED <<gpu_tb, gpu_cmd, cmd_bufs, cmd_buf_count, buffers, gpu_buf,
                            upload_transfer_buffer, pending_transfer_buffers>>]_vars

\* A download whose fence wait failed released its fence and its staging
\* buffer, with a command buffer of the application in flight.
C26_WaitFailedReleasedBoth ==
    /\ ret = "SDL_WaitForGPUFences failed"
    /\ FnCalls(calls, "SDL_ReleaseGPUFence") = 1
    /\ FnCalls(calls, "SDL_ReleaseGPUTransferBuffer") = 1
    /\ cmd_buf_count > 0

\* C30: a download that succeeds returns size bytes when size > 0 and
\* (declared size - offset) bytes when size = 0, none when offset is the
\* declared size; when the range lies inside the buffer they are its bytes
\* from offset on.
C30_DownloadReturnsRange ==
    \A b \in LiveHandles(buffers), offset \in 0..UMax, size \in 0..UMax, build \in Builds :
        \A raw \in FreshTb \ {Null} :
            LET declared == DeclaredSize(b)
                r == download_from_buffer(Cur, b, offset, size, build, raw, "ok")
                n == IF size > 0 THEN size ELSE declared - offset
            IN r.ret = "Ok(data)" =>
                   /\ Len(r.s.data) = n
                   /\ offset + n <= declared =>
                          r.s.data = [i \in 1..n |-> BufferByte(offset + i - 1)]
                   /\ (size = 0 /\ offset = declared) => r.s.data = <<>>

\* A download of the rest of the largest buffer from offset 1 has returned.
C30_RestFromOffsetOne ==
    /\ ret = "Ok(data)"
    /\ \E b \in LiveHandles(buffers) :
           /\ DeclaredSize(b) = UMax
           /\ data = [i \in 1..(UMax - 1) |-> BufferByte(i)]

\* The call log of an acquire_command_buffer that was answered raw.
AcquireLog(raw) ==
    <<[fn |-> "SDL_AcquireGPUCommandBuffer", cmd |-> raw, obj |-> Null, chk |-> "ok"]>>

\* C27: when the native acquire returns null, acquire_command_buffer returns
\* its NativeCallFailed error and changes nothing: counter, swapchain state,
\* pending list and every CommandBuffer are as before; when it succeeds the
\* counter is one higher, and the CommandBuffer returned is alive, not
\* submitted, without an open pass, recording at the native layer.
C27_AcquireCountsOnSuccess ==
    /\ [](\A raw \in FreshCmd :
              LET r == acquire_command_buffer(Cur, raw)
              IN IF raw = Null
                 THEN /\ r.ret = "SDL_AcquireGPUCommandBuffer failed"
                      /\ r.s = [Cur EXCEPT !.calls = AcquireLog(Null)]
                 ELSE /\ r.ret = "Ok"
                      /\ r.s = [Cur EXCEPT
                                  !.calls = AcquireLog(raw),
                                  !.count = cmd_buf_count + 1,
                                  !.cbs[raw] = [alive |-> TRUE, submitted |-> FALSE,
                                                pass |-> "none", sw |-> NoSwapchain],
                                  !.gcmd[raw] = [recording |-> TRUE, open |-> <<>>,
                                                 reads |-> {}]])
    /\ [][\A raw \in CmdIds \cup {Null} :
              calls' = AcquireLog(raw) =>
                  /\ UNCHANGED <<swapchain, pending_transfer_buffers, upload_transfer_buffer>>
                  /\ cmd_buf_count' = IF raw = Null THEN cmd_buf_count
                                      ELSE cmd_buf_count + 1
                  /\ \A c \in CmdIds \ {raw} : cmd_bufs'[c] = cmd_bufs[c]]_vars

\* An acquire has just failed on a Device with a command buffer in flight, a
\* swapchain texture recorded and a staging buffer awaiting release.
C27_FailedAcquireOnBusyDevice ==
    /\ ret = "SDL_AcquireGPUCommandBuffer failed"
    /\ calls = AcquireLog(Null)
    /\ cmd_buf_count > 0
    /\ swapchain # NoSwapchain
    /\ pending_transfer_buffers # <<>>

\* C28: on a Device without a window, acquire_swapchain_texture and the
\* swapchain format query report the missing window as a returned error: no
\* fault, no native call, the swapchain state unchanged.
C28_MissingWindowIsReturned ==
    ~window =>
        /\ fault = "none"
        /\ \A i \in DOMAIN calls :
               calls[i].fn \notin {"SDL_AcquireGPUSwapchainTexture",
                                   "SDL_GetGPUSwapchainTextureFormat"}
        /\ swapchain = NoSwapchain
        /\ \A c \in CmdIds, ok \in BOOLEAN, tex \in {Null} \cup SwapTex, dims \in SwapDims :
               Unborrowed(Cur, c) =>
                   acquire_swapchain_texture(Cur, c, ok, tex, dims)
                       = Ret(Cur, "Device has no window")

\* C29: the swapchain state is written at most once per Command Buffer: a
\* successful acquire_swapchain_texture on a Command Buffer that returns the
\* sentinel finds no swapchain texture recorded by that Command Buffer yet.
C29_SwapchainWrittenOnce ==
    [][\A c \in CmdIds :
           (/\ Len(calls') = 1
            /\ calls'[1].fn = "SDL_AcquireGPUSwapchainTexture"
            /\ calls'[1].cmd = c
            /\ ret' = "Ok(Some(SWAPCHAIN))")
               => cmd_bufs[c].sw = NoSwapchain]_vars

\* The free slots of a SlotMap, and the slots the free list visits from the
\* head, in order, following at most one link per slot.
FreeSlots(m) == {i \in 0..(Len(m.slots) - 1) : ~m.slots[i + 1].occ}

RECURSIVE Chain(_, _, _)
Chain(m, at, fuel) ==
    IF at = NoFree \/ fuel = 0 \/ ~InBounds(m, at)
    THEN <<at>>
    ELSE <<at>> \o Chain(m, m.slots[at + 1].next_free, fuel - 1)

FreeList(m) == Chain(m, m.first_free, Len(m.slots) + 1)

\* C31: the backing sequence of the registry never shrinks, and its length is
\* the largest number of entries that were occupied at the same time; it grows
\* by one, and only in a step that starts with no free slot.
C31_LengthIsPeakOccupancy ==
    /\ [](Len(cell.inner.slots) = peak)
    /\ [][/\ Len(cell'.inner.slots) >= Len(cell.inner.slots)
          /\ Len(cell'.inner.slots) # Len(cell.inner.slots) =>
                 /\ Len(cell'.inner.slots) = Len(cell.inner.slots) + 1
                 /\ FreeSlots(cell.inner) = {}]_vars

\* Two entries were occupied at once, both were removed and one slot is in
\* use again: the sequence still has the two slots.
C31_ReusedBelowPeak ==
    /\ peak = 2
    /\ Len(cell.inner.slots) = 2
    /\ Cardinality(LiveHandles(cell.inner)) = 1
    /\ cell.inner.first_free # NoFree
    /\ fault = "none"

\* The free list visits every free slot once, only free slots in range, and
\* ends at -1.
WellFormed(m) ==
    LET fl == FreeList(m)
        n == Len(fl) - 1
    IN /\ fl[n + 1] = NoFree
       /\ \A k \in 1..n : InBounds(m, fl[k]) /\ ~m.slots[fl[k] + 1].occ
       /\ \A j, k \in 1..n : fl[j] = fl[k] => j = k
       /\ {fl[k] : k \in 1..n} = FreeSlots(m)

\* C33: in every state reached by insert and remove calls that did not fault,
\* the free list of the registry is well formed, and an insert does not reach
\* its unreachable branch.
C33_FreeListWellFormed ==
    fault = "none" =>
        /\ WellFormed(cell.inner)
        /\ \A value \in CellValues : SlotInsert(cell.inner, value).panic = "none"

\* Three slots were freed in the order 2, 0, 1: the list runs from the slot
\* freed last to the one freed first.
C33_ThreeLinksFollowed ==
    /\ fault = "none"
    /\ FreeList(cell.inner) = <<1, 0, 2, NoFree>>

\* The value stored under a live handle.
ValueAt(m, h) == m.slots[h + 1].val

\* C34: an insert returns a handle that was not occupied, stores its value
\* under it and leaves every other live handle and its value as they were; a
\* remove returns the value stored under its handle, which is the one the
\* latest insert under that handle stored since no step changes the value of a
\* handle that stays live, and leaves every other live handle and its value
\* as they were.
C34_OtherEntriesUntouched ==
    /\ [](LET m == cell.inner
          IN /\ \A value \in CellValues :
                    LET ins == SlotInsert(m, value)
                    IN ins.panic = "none" =>
                           /\ ins.idx \notin LiveHandles(m)
                           /\ LiveHandles(ins.map) = LiveHandles(m) \cup {ins.idx}
                           /\ ValueAt(ins.map, ins.idx) = value
                           /\ \A h \in LiveHandles(m) : ValueAt(ins.map, h) = ValueAt(m, h)
             /\ \A index \in CellHandles :
                    LET rem == SlotRemove(m, index)
                    IN rem.panic = "none" =>
                           /\ index \in LiveHandles(m)
                           /\ rem.val = ValueAt(m, index)
                           /\ LiveHandles(rem.map) = LiveHandles(m) \ {index}
                           /\ \A h \in LiveHandles(rem.map) : ValueAt(rem.map, h) = ValueAt(m, h))
    /\ [][\A h \in LiveHandles(cell.inner) \cap LiveHandles(cell'.inner) :
              ValueAt(cell'.inner, h) = ValueAt(cell.inner, h)]_vars

\* The middle entry of three was removed: its neighbours hold their values.
C34_MiddleRemoved ==
    /\ fault = "none"
    /\ LiveHandles(cell.inner) = {0, 2}
    /\ cell.inner.first_free = 1
    /\ ValueAt(cell.inner, 0) = 1
    /\ ValueAt(cell.inner, 2) = 2

\* C35: a remove that faults on a slot that is already free leaves the
\* registry as it was before the call, so its free list is still well formed.
C35_FaultingRemoveNoEffect ==
    /\ [](fault = "slot already free" => WellFormed(cell.inner))
    /\ [][fault' = "slot already free" => cell'.inner = cell.inner]_vars

\* C36: a texture handle whose slot was removed (the slot is free: slots are
\* created occupied and only a remove frees one) resolves to nothing from then
\* on, whatever is created later; in particular not to a texture created after
\* the removal.
C36_RemovedHandleStaysDead ==
    [][\A h \in FreeSlots(textures) : SlotGet(textures', h).panic # "none"]_vars

\* The staging buffer releases of a call log that hit a buffer that was not
\* live any more.
DoubleReleases(log) ==
    {i \in DOMAIN log : log[i].fn = "SDL_ReleaseGPUTransferBuffer" /\ log[i].chk = "not_live"}

\* C37: the tracked staging pointer is not on the pending-release list and the
\* list holds no pointer twice, also after a failed creation; so neither a
\* drain nor a teardown from any reachable state, nor any step taken, releases
\* a staging buffer that was released already.
C37_StagingListedOnce ==
    /\ DoubleReleases(calls) = {}
    /\ ~dropped =>
           /\ upload_transfer_buffer[1] \notin Range(pending_transfer_buffers)
           /\ \A i, j \in DOMAIN pending_transfer_buffers :
                  pending_transfer_buffers[i] = pending_transfer_buffers[j] => i = j
           /\ \A i \in DOMAIN pending_transfer_buffers : gpu_tb[pending_transfer_buffers[i]]
           /\ DoubleReleases(ReleaseEach(Cur, pending_transfer_buffers).calls) = {}
           /\ DoubleReleases(Device_drop(Cur).calls) = {}

\* The creation of a larger staging buffer has just failed with command
\* buffers in flight: nothing is tracked and the superseded buffers wait.
C37_FailedGrowthWithPending ==
    /\ ret = "SDL_CreateGPUTransferBuffer failed"
    /\ upload_transfer_buffer = <<Null, 0>>
    /\ Len(pending_transfer_buffers) = 2

\* C38: between operations, whenever the in-flight counter is zero the
\* pending-release list is empty.
C38_NothingPendingAtZero ==
    cmd_buf_count = 0 => pending_transfer_buffers = <<>>

\* What a self-contained operation that ends in state s has left alone: the
\* in-flight counter, the swapchain state and the entries of the
\* pending-release list, none of which it released.
SelfContained(s) ==
    /\ s.count = cmd_buf_count
    /\ s.swapchain = swapchain
    /\ IsPrefix(pending_transfer_buffers, s.pending)
    /\ \A i \in DOMAIN s.calls :
           s.calls[i].fn = "SDL_ReleaseGPUTransferBuffer" =>
               s.calls[i].obj \notin Range(pending_transfer_buffers)

\* The native calls only an upload or a download makes.
SelfContainedFns ==
    {"SDL_CreateGPUTransferBuffer", "SDL_MapGPUTransferBuffer", "SDL_DownloadFromGPUBuffer"}

\* C39: upload_to_buffer and upload_to_texture without a pass and
\* download_from_buffer, whatever the native calls answer, leave the in-flight
\* counter and the swapchain state unchanged and release no entry of the
\* pending-release list, which they may only extend; a download leaves the
\* list and the tracked upload staging (pointer, capacity) unchanged.
C39_SelfContainedFrame ==
    /\ [](Running =>
            /\ \A buffer \in LiveHandles(buffers), offset \in {0, UMax}, size \in 0..MaxLen :
                   \A e \in UploadEnvs(Null, size, MapOutcomes, TmpOutcomes) :
                       SelfContained(upload_to_buffer(Cur, Null, buffer, offset, size,
                                                      e.raw, e.map, e.tmp).s)
            /\ \A texture \in LiveHandles(textures), size \in 0..MaxLen :
                   \A e \in UploadEnvs(Null, size, MapOutcomes, TmpOutcomes) :
                       SelfContained(upload_to_texture(Cur, Null, texture, size,
                                                       e.raw, e.map, e.tmp).s)
            /\ \A buffer \in LiveHandles(buffers), offset \in DownloadOffsets,
                  size \in DownloadSizes, build \in Builds, e \in DownloadEnvs :
                   LET r == download_from_buffer(Cur, buffer, offset, size, build, e.raw, e.env)
                   IN /\ SelfContained(r.s)
                      /\ r.s.pending = pending_transfer_buffers
                      /\ r.s.upload = upload_transfer_buffer)
    /\ [][(\E i \in DOMAIN calls' : calls'[i].fn \in SelfContainedFns) =>
              /\ cmd_buf_count' = cmd_buf_count
              /\ swapchain' = swapchain
              /\ IsPrefix(pending_transfer_buffers, pending_transfer_buffers')
              /\ (\E i \in DOMAIN calls' : calls'[i].fn = "SDL_DownloadFromGPUBuffer") =>
                     UNCHANGED <<pending_transfer_buffers, upload_transfer_buffer>>]_vars

\* An upload without a pass has grown the staging buffer and its own
\* submission failed, with a command buffer in flight and the swapchain
\* texture acquired.
C39_OwnSubmitFailedWhileInFlight ==
    /\ ret = "SDL_SubmitGPUCommandBuffer failed"
    /\ CmdCalls(calls, "SDL_SubmitGPUCommandBuffer", TmpCmd) = 1
    /\ cmd_buf_count = 1
    /\ swapchain # NoSwapchain
    /\ pending_transfer_buffers # <<>>

\* C40: an upload whose native map call returned null returns an error,
\* without writing through the mapping and without recording or submitting a
\* copy.
C40_NullMapRefused ==
    (\E i \in DOMAIN calls :
         calls[i].fn = "SDL_MapGPUTransferBuffer" /\ calls[i].chk = "null") =>
        /\ fault = "none"
        /\ ret \notin {"Ok", "panic"}
        /\ \A i \in DOMAIN calls :
               calls[i].fn \notin {"SDL_UploadToGPUBuffer", "SDL_UploadToGPUTexture",
                                   "SDL_SubmitGPUCommandBuffer"}

\* Every acquired command buffer is eventually submitted or dropped, and the
\* Device is eventually torn down.
AllFinishedAndTornDown ==
    /\ \A c \in CmdIds : cmd_bufs[c].alive ~> ~cmd_bufs[c].alive
    /\ <>dropped

\* C32: a staging buffer is released only in a step that takes the in-flight
\* counter from 1 to 0 or tears the Device down, and never when it was
\* released before; and if every command buffer is eventually finished and the
\* Device eventually torn down, then from some point on the counter is zero
\* and no staging buffer that was created is left unreleased.
C32_StagingEventuallyReleased ==
    /\ [][Releases(calls') > 0 =>
              /\ \/ cmd_buf_count = 1 /\ cmd_buf_count' = 0
                 \/ ~dropped /\ dropped'
              /\ DoubleReleases(calls') = {}]_vars
    /\ AllFinishedAndTornDown =>
           <>[](cmd_buf_count = 0 /\ \A t \in TbIds : ~gpu_tb[t])

\* The teardown released the tracked staging buffer and one that was
\* superseded and still pending.
C32_TeardownReleasedPending ==
    /\ dropped
    /\ cmd_buf_count = 0
    /\ Releases(calls) = 2
    /\ \A t \in TbIds : ~gpu_tb[t]

====
